---------------------------- MODULE Spec2Model ----------------------------
(***************************************************************************)
(* A model of the dataset tools of the repository:                         *)
(*   tools/xmlTools.py      XMLLabelSummarizer, XMLtoTXTConverter,         *)
(*                          TxtToXmlConverter                              *)
(*   tools/check_format.py  validate_yolo_dataset                          *)
(*   tools/split_dataset.py split_dataset                                  *)
(*   tools/yolo_labels_distribution.py                                     *)
(*                          YOLOLabelAnalyzer.analyze_labels_distribution  *)
(*                                                                         *)
(* Numbers that Python holds as floats are modelled as exact rationals     *)
(* <<n, d>> in lowest terms with d > 0; IEEE rounding is not modelled.     *)
(* A float written with str.format and read back with float() is the same  *)
(* float, so a text field is the rational in lowest terms.                 *)
(***************************************************************************)
EXTENDS Integers, Sequences, FiniteSets, TLC

VARIABLES
    \* ---- coordinate arithmetic (XMLtoTXTConverter._convert_coordinate,
    \*      TxtToXmlConverter.convert bndbox arithmetic)
    gpc,            \* "idle" | "normalized" | "denormalized" | "raised"
    gsize,          \* imgshape = <<width, height>>
    gbox,           \* bbox_coor = <<xmin, xmax, ymin, ymax>>
    gline,          \* the label line written: <<obj_id, x, y, w, h>>
    gimg,           \* <<Pwidth, Pheight>> of the image read back (pic.shape)
    gback,          \* the bndbox written back: <<xmin, ymin, xmax, ymax>>
    \* ---- XMLtoTXTConverter.convert
    class_list,     \* self.class_list (<<>> when None)
    class_map_dist, \* self.class_map_dist (<<>> when None or empty)
    txt_write_mode, \* "w" | "a"
    class_dir,      \* TRUE when a class_dir was given
    file_path_list, \* the paths _get_file_list returned, in os.walk order
    cpc,            \* "open" | "objects" | "finish" | "done" | "raised"
    fidx,           \* index in file_path_list of the file being converted
    cur,            \* the current file: imgshape, the objects met so far, the last object
    obj_id,         \* the local variable obj_id ("unbound" before its first assignment)
    txtresult,      \* the local variable txtresult
    out_dir,        \* the output directory: file name -> the lines of the file
    class_file,     \* the lines of class_dir/classes.txt
    exc,            \* the exception that ended the run ("none" when none)
    printed,        \* what the run printed, in order
    writers,        \* output file name -> the indexes of the input files written to it
    \* ---- XMLLabelSummarizer
    spc,            \* "scanning" | "done"
    name_count,     \* self.name_count: the counts
    name_keys,      \* self.name_count: the keys in insertion order
    labels,         \* the local set labels of summarize_labels
    class_names,    \* self.class_names
    scanned,        \* the object names met by the scan, in scan order
    \* ---- validate_yolo_dataset
    vpc,            \* the stage the run is in
    images_exist,   \* os.path.exists(images_dir)
    labels_exist,   \* os.path.exists(labels_dir)
    max_class_id,   \* the argument max_class_id (NoMax when None)
    image_files,    \* the image files listed, as <<basename, extension>>
    label_files,    \* the label files listed, as <<basename, extension>>
    correspondence_info,
    lidx,           \* index in label_files of the label file being checked
    broken_images,
    invalid_annotations,
    all_errors,
    result,         \* the returned dict (keys = {} before the return)
    report,         \* the report file: whether written, and its problem list
    stages,         \* the stages the run went through, in order
    \* ---- the label syntax check of one label file (check_format.py 113-158)
    lpc,            \* "read" | "checked"
    flines,         \* f.readlines(): the lines of the file, each as its fields
    lmax,           \* max_class_id (NoMax when None)
    flagged,        \* the entries the file added to invalid_annotations
    lcount,         \* what the analyzer's loop over the lines of the same file counted
    \* ---- XMLtoTXTConverter.__init__
    ctor_pc,        \* "call" | "constructed" | "exited"
    ctor_args,      \* the arguments class_dir, class_list, class_map_dist
    out_dir_made,   \* os.makedirs(self.out_dir) was called
    \* ---- split_dataset
    split_pc,       \* "args" | "collect" | "labels" | "split" | "write" | "done" | "raised"
    images_dir_list,   \* one entry per images directory: whether it exists
    labels_dir_list,   \* one entry per labels directory: whether it exists
    trainval_percent,
    train_percent,
    all_image_info, \* the collected items, each with its directory pair, its
                    \* file and the labels directories that hold its label file
    collected,      \* all_image_info as first collected (before line 220)
    use_valid_only, \* the answer read at line 218 ("" when not asked)
    output_made,    \* os.makedirs(output_dir) was called
    nums,           \* num_total, num_trainval, num_train, num_val, num_test
    index_lists,    \* trainval_indices, train_indices, val_indices, test_indices
    list_files,     \* the list files written: set name -> the indexes written
    split_result,   \* the returned dict (keys = {} before the return)
    split_exc,      \* the exception raised ("none" when none)
    random_seed,    \* the argument random_seed (NoSeed when None)
    rng,            \* the state of the module-level generator of random
    run,            \* 1 in the first call, 2 in a second call with the same arguments
    first_run,      \* what the first call collected and how it split it
    \* ---- YOLOLabelAnalyzer.analyze_labels_distribution
    dist_pc,        \* "start" | "files" | "finish" | "done"
    found_files,    \* what glob found: each file as its path and its lines
    txt_files,      \* found_files without the excluded names
    dist_idx,       \* index in txt_files of the file being read
    labels_counter, \* self.labels_counter: class id -> count
    total_objects,
    total_label_files,
    objects_per_image,        \* self.objects_per_image: n -> count
    class_objects_per_image,  \* self.class_objects_per_image: class id -> (n -> count)
    failed_files,   \* the indexes of the files whose read ended in the except
    dist_return,    \* the value returned ("none" before the return)
    \* ---- TxtToXmlConverter.convert
    tpc,            \* "files" | "done"
    listed_files,   \* files = os.listdir(self.txt_path): each file's name and
                    \* number of lines
    img_path,       \* the img_names whose image exists and loads
    xml_path,       \* the output directory: img_name -> the document written
    pre_img_name,   \* the local variable pre_img_name
    tidx,           \* index in files of the next file
    \* ---- XmlNameModify.modify
    npc,            \* "walk" | "done"
    xml_files,      \* the .xml files under self.xml_path: each one's objects in
                    \* document order
    orig_files,     \* xml_files as they were before the call
    old_name,
    new_name,
    nidx,           \* index in xml_files of the next file
    rewritten       \* the indexes of the files tree.write wrote

geomVars == <<gpc, gsize, gbox, gline, gimg, gback>>
convVars == <<class_list, class_map_dist, txt_write_mode, class_dir, file_path_list,
              cpc, fidx, cur, obj_id, txtresult, out_dir, class_file, exc, printed,
              writers>>
scanVars == <<spc, name_count, name_keys, labels, class_names, scanned>>
valVars  == <<vpc, images_exist, labels_exist, max_class_id, image_files, label_files,
              correspondence_info, lidx, broken_images, invalid_annotations,
              all_errors, result, report, stages>>
labVars  == <<lpc, flines, lmax, flagged, lcount>>
ctorVars == <<ctor_pc, ctor_args, out_dir_made>>
splitVars == <<split_pc, images_dir_list, labels_dir_list, trainval_percent,
               train_percent, all_image_info, collected, use_valid_only, output_made,
               nums, index_lists, list_files, split_result, split_exc,
               random_seed, rng, run, first_run>>
distVars == <<dist_pc, found_files, txt_files, dist_idx, labels_counter, total_objects,
              total_label_files, objects_per_image, class_objects_per_image,
              failed_files, dist_return>>
txtVars == <<tpc, listed_files, img_path, xml_path, pre_img_name, tidx>>
nameVars == <<npc, xml_files, orig_files, old_name, new_name, nidx, rewritten>>
vars == <<geomVars, convVars, scanVars, valVars, labVars, ctorVars, splitVars, distVars,
          txtVars, nameVars>>

\* what the actions of one tool leave alone
exceptGeom == <<convVars, scanVars, valVars, labVars, ctorVars, splitVars, distVars,
    txtVars, nameVars>>
exceptConv == <<geomVars, scanVars, valVars, labVars, ctorVars, splitVars, distVars,
    txtVars, nameVars>>
exceptScan == <<geomVars, convVars, valVars, labVars, ctorVars, splitVars, distVars,
    txtVars, nameVars>>
exceptVal  == <<geomVars, convVars, scanVars, labVars, ctorVars, splitVars, distVars,
    txtVars, nameVars>>
exceptLab  == <<geomVars, convVars, scanVars, valVars, ctorVars, splitVars, distVars,
    txtVars, nameVars>>
exceptCtor == <<geomVars, convVars, scanVars, valVars, labVars, splitVars, distVars,
    txtVars, nameVars>>
exceptSplit == <<geomVars, convVars, scanVars, valVars, labVars, ctorVars, distVars,
    txtVars, nameVars>>
exceptDist == <<geomVars, convVars, scanVars, valVars, labVars, ctorVars, splitVars,
    txtVars, nameVars>>
exceptTxt == <<geomVars, convVars, scanVars, valVars, labVars, ctorVars, splitVars,
    distVars, nameVars>>
exceptName == <<geomVars, convVars, scanVars, valVars, labVars, ctorVars, splitVars,
    distVars, txtVars>>

(***************************************************************************)
(* Bounds of the model.                                                    *)
(***************************************************************************)
MaxDim == 3
MaxObjs == 2
MaxScan == 4
MaxLines == 1
MaxFileLines == 2
MaxItems == 3
MaxDistLines == 2
RngSize == 3
MaxTxtFiles == 2
MaxTxtLines == 2
MaxXmlObjs == 2

(***************************************************************************)
(* Sequences and dicts.                                                    *)
(***************************************************************************)
Range(s) == {s[i] : i \in 1..Len(s)}

\* list.index(x): the first position of x, 0-based (the caller checks membership)
IndexOf(s, x) == (CHOOSE i \in 1..Len(s) : s[i] = x /\ \A j \in 1..(i-1) : s[j] # x) - 1

NoDup(s) == \A i, j \in 1..Len(s) : i # j => s[i] # s[j]

SeqsUpTo(S, n) == UNION {[1..k -> S] : k \in 0..n}

(***************************************************************************)
(* Rational arithmetic standing for Python's float arithmetic.             *)
(***************************************************************************)
Abs(n) == IF n < 0 THEN -n ELSE n

RECURSIVE Gcd(_, _)
Gcd(a, b) == IF b = 0 THEN a ELSE Gcd(b, a % b)

\* n/d in lowest terms, d > 0 (d # 0 is the caller's duty)
Rat(n, d) ==
    LET s == IF d < 0 THEN -1 ELSE 1
        g == Gcd(Abs(n), Abs(d))
    IN  <<(s * n) \div g, (s * d) \div g>>

RatOfInt(n) == <<n, 1>>
RatAdd(p, q) == Rat(p[1] * q[2] + q[1] * p[2], p[2] * q[2])
RatSub(p, q) == Rat(p[1] * q[2] - q[1] * p[2], p[2] * q[2])
RatMul(p, q) == Rat(p[1] * q[1], p[2] * q[2])
RatDiv(p, q) == Rat(p[1] * q[2], p[2] * q[1])
RatLe(p, q)  == p[1] * q[2] <= q[1] * p[2]
RatLt(p, q)  == p[1] * q[2] < q[1] * p[2]

\* int(x) of a float: truncation toward zero
PyInt(p) == IF p[1] >= 0 THEN p[1] \div p[2] ELSE -((-p[1]) \div p[2])

Half == <<1, 2>>

(***************************************************************************)
(* XMLtoTXTConverter._convert_coordinate (xmlTools.py 198-212).            *)
(* imgshape = <<width, height>> (ints), bbox = <<xmin, xmax, ymin, ymax>>  *)
(* (floats).  1. / width raises ZeroDivisionError when width = 0.          *)
(***************************************************************************)
CoordinateRaises(imgshape) == imgshape[1] = 0 \/ imgshape[2] = 0

ConvertCoordinateSwapped(imgshape, bbox) ==
    LET dw == RatDiv(RatOfInt(1), RatOfInt(imgshape[1]))
        x  == RatDiv(RatAdd(bbox[1], bbox[2]), RatOfInt(2))
        y  == RatDiv(RatAdd(bbox[3], bbox[4]), RatOfInt(2))
        w  == RatSub(bbox[2], bbox[1])
        h  == RatSub(bbox[4], bbox[3])
    IN  <<RatMul(x, dw), RatMul(y, dw), RatMul(w, dw), RatMul(h, dw)>>

ConvertCoordinate(imgshape, bbox) ==
    LET xmin == bbox[1]
        xmax == bbox[2]
        ymin == bbox[3]
        ymax == bbox[4]
        width  == imgshape[1]
        height == imgshape[2]
        dw == RatDiv(RatOfInt(1), RatOfInt(width))
        dh == RatDiv(RatOfInt(1), RatOfInt(height))
        x  == RatDiv(RatAdd(xmin, xmax), RatOfInt(2))
        y  == RatDiv(RatAdd(ymin, ymax), RatOfInt(2))
        w  == RatSub(xmax, xmin)
        h  == RatSub(ymax, ymin)
    IN  <<RatMul(x, dw), RatMul(y, dh), RatMul(w, dw), RatMul(h, dh)>>

\* '{} {} {} {} {}\n'.format(obj_id, x, y, w, h) (xmlTools.py 189)
FormatLine(id, c) == <<id, c[1], c[2], c[3], c[4]>>

\* row.strip().split(" ") and float(oneline[k]) (xmlTools.py 296, 325)
ParseFloat(field) == Rat(field[1], field[2])

(***************************************************************************)
(* The bndbox arithmetic of TxtToXmlConverter.convert (xmlTools.py         *)
(* 324-331): int((cx * Pwidth + 1) -/+ w * 0.5 * Pwidth).                  *)
(***************************************************************************)
BndBox(oneline, Pwidth, Pheight) ==
    LET cx == ParseFloat(oneline[2])
        cy == ParseFloat(oneline[3])
        w  == ParseFloat(oneline[4])
        h  == ParseFloat(oneline[5])
        PW == RatOfInt(Pwidth)
        PH == RatOfInt(Pheight)
        one == RatOfInt(1)
        xc == RatAdd(RatMul(cx, PW), one)
        yc == RatAdd(RatMul(cy, PH), one)
        hw == RatMul(RatMul(w, Half), PW)
        hh == RatMul(RatMul(h, Half), PH)
    IN  <<PyInt(RatSub(xc, hw)), PyInt(RatSub(yc, hh)),
          PyInt(RatAdd(xc, hw)), PyInt(RatAdd(yc, hh))>>


(***************************************************************************)
(* Specification SpecGeom: one box normalized by _convert_coordinate as    *)
(* _convert_xml_to_txt calls it (xmlTools.py 182-190), and the line read   *)
(* back by TxtToXmlConverter.convert (xmlTools.py 291-331).                *)
(***************************************************************************)
GeomDims == (-1)..MaxDim
GeomSizes == GeomDims \X GeomDims
GeomCoords == 0..(MaxDim + 1)
GeomBoxes == {<<RatOfInt(a), RatOfInt(b), RatOfInt(c), RatOfInt(d)>> :
                 a \in GeomCoords, b \in GeomCoords, c \in GeomCoords, d \in GeomCoords}
ImageSizes == (1..MaxDim) \X (1..MaxDim)

NoLine == <<0, <<0, 1>>, <<0, 1>>, <<0, 1>>, <<0, 1>>>>

GeomOff ==
    /\ gpc = "off"
    /\ gsize = <<1, 1>>
    /\ gbox = <<RatOfInt(0), RatOfInt(0), RatOfInt(0), RatOfInt(0)>>
    /\ gline = NoLine
    /\ gimg = <<1, 1>>
    /\ gback = <<0, 0, 0, 0>>

GeomInit ==
    /\ gpc = "idle"
    /\ gsize = <<1, 1>>
    /\ gbox = <<RatOfInt(0), RatOfInt(0), RatOfInt(0), RatOfInt(0)>>
    /\ gline = NoLine
    /\ gimg = <<1, 1>>
    /\ gback = <<0, 0, 0, 0>>

\* x, y, w, h = self._convert_coordinate(imgshape, bbox_coor); txt = format(...)
GeomNormalize ==
    /\ gpc = "idle"
    /\ \E size \in GeomSizes, box \in GeomBoxes :
          /\ ~CoordinateRaises(size)
          /\ gsize' = size
          /\ gbox' = box
          /\ gline' = FormatLine(0, ConvertCoordinate(size, box))
          /\ gpc' = "normalized"
    /\ UNCHANGED <<gimg, gback>>
    /\ UNCHANGED exceptGeom

\* dw = 1. / width or dh = 1. / height raises ZeroDivisionError
GeomNormalizeRaises ==
    /\ gpc = "idle"
    /\ \E size \in GeomSizes, box \in GeomBoxes :
          /\ CoordinateRaises(size)
          /\ gsize' = size
          /\ gbox' = box
          /\ gpc' = "raised"
    /\ UNCHANGED <<gline, gimg, gback>>
    /\ UNCHANGED exceptGeom

\* the line read back against an image of shape (Pheight, Pwidth)
GeomDenormalize ==
    /\ gpc = "normalized"
    /\ \E img \in ImageSizes :
          /\ gimg' = img
          /\ gback' = BndBox(gline, img[1], img[2])
    /\ gpc' = "denormalized"
    /\ UNCHANGED <<gsize, gbox, gline>>
    /\ UNCHANGED exceptGeom

GeomNext == GeomNormalize \/ GeomNormalizeRaises \/ GeomDenormalize


(***************************************************************************)
(* XMLtoTXTConverter (xmlTools.py 95-221).                                 *)
(***************************************************************************)
\* Python truth of a list or dict attribute: None and empty are both false
Truthy(c) == DOMAIN c # {}

\* The constructor calls the model draws from: class_list is None or a list of
\* two names, class_map_dist is None or maps a name to itself, an alias to a
\* name of the list and an alias to a name the list lacks.
TheList == <<"a", "b">>
TheMap  == [n \in {"a", "x", "y"} |-> IF n = "a" THEN "a" ELSE IF n = "x" THEN "b" ELSE "z"]
Constructions ==
    {[class_list |-> TheList, class_map_dist |-> <<>>, class_dir |-> FALSE, mode |-> "w"],
     [class_list |-> TheList, class_map_dist |-> <<>>, class_dir |-> TRUE, mode |-> "a"],
     [class_list |-> TheList, class_map_dist |-> TheMap, class_dir |-> FALSE, mode |-> "w"],
     [class_list |-> TheList, class_map_dist |-> TheMap, class_dir |-> FALSE, mode |-> "a"],
     [class_list |-> <<>>, class_map_dist |-> TheMap, class_dir |-> FALSE, mode |-> "w"],
     [class_list |-> <<>>, class_map_dist |-> <<>>, class_dir |-> TRUE, mode |-> "w"]}
\* The object names the XML files of the model hold.
ObjNames == {"a", "b", "x", "y", "u"}
\* bndbox of an object: absent, present with a field missing, present and whole
BndKinds == {"none", "missing", "box"}
\* The one box of the model's objects, as <<xmin, xmax, ymin, ymax>>.
TheBox == <<RatOfInt(1), RatOfInt(3), RatOfInt(0), RatOfInt(1)>>
\* The <size> elements of the model's files, as <<width, height>>.
ConvSizes == {<<4, 2>>, <<-4, 2>>, <<0, 2>>, <<4, 0>>}
\* The .xml files input_dir may hold, as <<directory, basename>>: two files of
\* the same name in two subdirectories.
XmlPaths == {<<"d1", "x">>, <<"d2", "x">>}

\* os.walk(self.input_dir) filtered on .xml (xmlTools.py 142-152): the files
\* present, in any order, no path twice
FileLists == {l \in SeqsUpTo(XmlPaths, Cardinality(XmlPaths)) : NoDup(l)}

\* os.path.basename(file_path).replace('.xml','.txt') (xmlTools.py 191-192)
TxtName(file_path) == file_path[2]

\* Lines 171-179: what the class lookup of one object does.
\*   "skip": continue;  "id": obj_id is assigned;  "raise": list.index raises
\*   ValueError;  "keep": neither branch runs and obj_id keeps its value
ResolveOneBased(name) ==
    IF Truthy(class_map_dist) /\ Truthy(class_list)
    THEN IF name \notin DOMAIN class_map_dist
         THEN [kind |-> "skip", id |-> 0]
         ELSE IF class_map_dist[name] \notin Range(class_list)
              THEN [kind |-> "raise", id |-> 0]
              ELSE [kind |-> "id", id |-> IndexOf(class_list, class_map_dist[name]) + 1]
    ELSE IF Truthy(class_list)
         THEN IF name \notin Range(class_list)
              THEN [kind |-> "skip", id |-> 0]
              ELSE [kind |-> "id", id |-> IndexOf(class_list, name) + 1]
         ELSE [kind |-> "keep", id |-> 0]

Resolve(name) ==
    IF Truthy(class_map_dist) /\ Truthy(class_list)
    THEN IF name \notin DOMAIN class_map_dist
         THEN [kind |-> "skip", id |-> 0]
         ELSE IF class_map_dist[name] \notin Range(class_list)
              THEN [kind |-> "raise", id |-> 0]
              ELSE [kind |-> "id", id |-> IndexOf(class_list, class_map_dist[name])]
    ELSE IF Truthy(class_list)
         THEN IF name \notin Range(class_list)
              THEN [kind |-> "skip", id |-> 0]
              ELSE [kind |-> "id", id |-> IndexOf(class_list, name)]
         ELSE [kind |-> "keep", id |-> 0]

Unbound == -1
\* last: the object of the last pass of the loop over the objects, whether the
\* pass ended in `continue`, and the length txtresult had when the pass began
NoObject == [name |-> "", bndbox |-> "none", dropped |-> FALSE, nbefore |-> 0]
NoFile == [imgshape |-> <<1, 1>>, nobjects |-> 0, last |-> NoObject]

ConvOff ==
    /\ class_list = <<>>
    /\ class_map_dist = <<>>
    /\ txt_write_mode = "w"
    /\ class_dir = FALSE
    /\ file_path_list = <<>>
    /\ cpc = "off"
    /\ fidx = 1
    /\ cur = NoFile
    /\ obj_id = Unbound
    /\ txtresult = <<>>
    /\ out_dir = <<>>
    /\ class_file = <<>>
    /\ exc = "none"
    /\ printed = <<>>
    /\ writers = <<>>

\* __init__ (106-132) accepted the arguments; convert (134-137) has the file list
ConvInit ==
    /\ \E c \in Constructions :
          /\ class_list = c.class_list
          /\ class_map_dist = c.class_map_dist
          /\ class_dir = c.class_dir
          /\ txt_write_mode = c.mode
    /\ class_dir \/ Truthy(class_list) \/ Truthy(class_map_dist)
    /\ file_path_list \in FileLists
    /\ cpc = IF file_path_list = <<>> THEN "finish" ELSE "open"
    /\ fidx = 1
    /\ cur = NoFile
    /\ obj_id = Unbound
    /\ txtresult = <<>>
    /\ out_dir = <<>>
    /\ class_file = <<>>
    /\ exc = "none"
    /\ printed = <<>>
    /\ writers = <<>>

ConvRaise(e) ==
    /\ cpc' = "raised"
    /\ exc' = e

\* Lines 157-167 on a file that parses and has size/width/height
ConvOpen ==
    /\ cpc = "open"
    /\ \E size \in ConvSizes :
          cur' = [NoFile EXCEPT !.imgshape = size]
    /\ txtresult' = <<>>
    /\ cpc' = "objects"
    /\ UNCHANGED <<class_list, class_map_dist, txt_write_mode, class_dir, file_path_list,
                   fidx, obj_id, out_dir, class_file, exc, printed, writers>>
    /\ UNCHANGED exceptConv

\* Lines 157-164 on a bad file: ET.parse raises ParseError; root.find('size') or
\* size.find('width') is None and .find / .text raises AttributeError
ConvOpenRaises ==
    /\ cpc = "open"
    /\ \E e \in {"ParseError", "AttributeError"} : ConvRaise(e)
    /\ UNCHANGED <<class_list, class_map_dist, txt_write_mode, class_dir, file_path_list,
                   fidx, cur, obj_id, txtresult, out_dir, class_file, printed, writers>>
    /\ UNCHANGED exceptConv

\* What one pass of the loop of lines 168-190 does with an object
ObjectRaises(name, bnd) ==
    LET r == Resolve(name)
    IN  IF r.kind = "skip" THEN "none"
        ELSE IF r.kind = "raise" THEN "ValueError"
        ELSE IF bnd = "none" THEN "none"
        ELSE IF bnd = "missing" THEN "AttributeError"
        ELSE IF CoordinateRaises(cur.imgshape) THEN "ZeroDivisionError"
        ELSE IF r.kind = "keep" /\ obj_id = Unbound THEN "UnboundLocalError"
        ELSE "none"

\* One pass of the loop of lines 168-190 that formats the line with the
\* obj_id of an earlier pass when there is one
ConvObjectKeepsId ==
    /\ cpc = "objects"
    /\ cur.nobjects < MaxObjs
    /\ \E name \in ObjNames, bnd \in BndKinds :
          LET r == Resolve(name)
              id == IF obj_id # Unbound \/ r.kind # "id" THEN obj_id ELSE r.id
              wrote == r.kind # "skip" /\ bnd = "box"
          IN  /\ ObjectRaises(name, bnd) = "none"
              /\ obj_id' = IF r.kind = "skip" THEN obj_id ELSE id
              /\ txtresult' =
                    IF wrote
                    THEN Append(txtresult,
                                FormatLine(id, ConvertCoordinate(cur.imgshape, TheBox)))
                    ELSE txtresult
              /\ cur' = [cur EXCEPT
                            !.nobjects = @ + 1,
                            !.last = [name |-> name, bndbox |-> bnd,
                                      dropped |-> r.kind = "skip",
                                      nbefore |-> Len(txtresult)]]
    /\ UNCHANGED <<class_list, class_map_dist, txt_write_mode, class_dir, file_path_list,
                   cpc, fidx, out_dir, class_file, exc, printed, writers>>
    /\ UNCHANGED exceptConv

\* One pass of the loop of lines 168-190 that does not raise
ConvObject ==
    /\ cpc = "objects"
    /\ cur.nobjects < MaxObjs
    /\ \E name \in ObjNames, bnd \in BndKinds :
          LET r == Resolve(name)
              id == IF r.kind = "id" THEN r.id ELSE obj_id
              wrote == r.kind # "skip" /\ bnd = "box"
          IN  /\ ObjectRaises(name, bnd) = "none"
              /\ obj_id' = IF r.kind = "skip" THEN obj_id ELSE id
              /\ txtresult' =
                    IF wrote
                    THEN Append(txtresult,
                                FormatLine(id, ConvertCoordinate(cur.imgshape, TheBox)))
                    ELSE txtresult
              /\ cur' = [cur EXCEPT
                            !.nobjects = @ + 1,
                            !.last = [name |-> name, bndbox |-> bnd,
                                      dropped |-> r.kind = "skip",
                                      nbefore |-> Len(txtresult)]]
    /\ UNCHANGED <<class_list, class_map_dist, txt_write_mode, class_dir, file_path_list,
                   cpc, fidx, out_dir, class_file, exc, printed, writers>>
    /\ UNCHANGED exceptConv

\* One pass of the loop of lines 168-190 that raises: the run ends there
ConvObjectRaises ==
    /\ cpc = "objects"
    /\ cur.nobjects < MaxObjs
    /\ \E name \in ObjNames, bnd \in BndKinds :
          /\ ObjectRaises(name, bnd) # "none"
          /\ ConvRaise(ObjectRaises(name, bnd))
    /\ UNCHANGED <<class_list, class_map_dist, txt_write_mode, class_dir, file_path_list,
                   fidx, cur, obj_id, txtresult, out_dir, class_file, printed, writers>>
    /\ UNCHANGED exceptConv

\* open(txt_file_path, mode).write(txtresult): 'w' truncates, 'a' appends
WriteFile(dir, name, mode, lines) ==
    LET old == IF name \in DOMAIN dir /\ mode = "a" THEN dir[name] ELSE <<>>
    IN  [n \in DOMAIN dir \cup {name} |-> IF n = name THEN old \o lines ELSE dir[n]]

\* Lines 191-196: the objects are exhausted, the text file is written.  The
\* locals of the pass (size, txtresult) are dead from here on: the next pass
\* assigns them before it reads them.
ConvWrite ==
    /\ cpc = "objects"
    /\ LET file_path == file_path_list[fidx]
           txt == TxtName(file_path)
       IN  /\ out_dir' = WriteFile(out_dir, txt, txt_write_mode, txtresult)
           /\ printed' = Append(printed, <<"convert", file_path, txt, "done">>)
           /\ writers' = [n \in DOMAIN writers \cup {txt} |->
                            IF n = txt
                            THEN (IF n \in DOMAIN writers THEN writers[n] ELSE {})
                                 \cup {fidx}
                            ELSE writers[n]]
    /\ fidx' = fidx + 1
    /\ cpc' = IF fidx = Len(file_path_list) THEN "finish" ELSE "open"
    /\ cur' = NoFile
    /\ txtresult' = <<>>
    /\ UNCHANGED <<class_list, class_map_dist, txt_write_mode, class_dir, file_path_list,
                   obj_id, class_file, exc>>
    /\ UNCHANGED exceptConv

\* Line 138 and _create_class_file (214-221); `for i in self.class_list` raises
\* TypeError when class_list is None
ConvFinish ==
    /\ cpc = "finish"
    /\ IF class_dir /\ ~Truthy(class_list)
       THEN /\ ConvRaise("TypeError")
            /\ UNCHANGED class_file
       ELSE /\ cpc' = "done"
            /\ class_file' = IF class_dir THEN class_file \o class_list ELSE class_file
            /\ UNCHANGED exc
    /\ UNCHANGED <<class_list, class_map_dist, txt_write_mode, class_dir, file_path_list,
                   fidx, cur, obj_id, txtresult, out_dir, printed, writers>>
    /\ UNCHANGED exceptConv

ConvNext ==
    \/ ConvOpen
    \/ ConvOpenRaises
    \/ ConvObject
    \/ ConvObjectRaises
    \/ ConvWrite
    \/ ConvFinish


(***************************************************************************)
(* XMLLabelSummarizer (xmlTools.py 30-93).                                 *)
(***************************************************************************)
\* The texts of the <name> elements the model's corpus holds.
RawNames == {"a", "b", "c", " a"}

\* str.strip() (xmlTools.py 86)
Strip(name) == IF name = " a" THEN "a" ELSE name

ScanOff ==
    /\ spc = "off"
    /\ name_count = <<>>
    /\ name_keys = <<>>
    /\ labels = {}
    /\ class_names = {}
    /\ scanned = <<>>

\* __init__ (35-38)
ScanInit ==
    /\ spc = "scanning"
    /\ name_count = <<>>
    /\ name_keys = <<>>
    /\ labels = {}
    /\ class_names = {}
    /\ scanned = <<>>

\* self.name_count[name] = self.name_count.get(name, 0) + 1 (87): a new key goes
\* last in the dict's order
CountName(name) ==
    /\ name_count' = [k \in DOMAIN name_count \cup {name} |->
                        IF k = name
                        THEN (IF k \in DOMAIN name_count THEN name_count[k] ELSE 0) + 1
                        ELSE name_count[k]]
    /\ name_keys' = IF name \in DOMAIN name_count THEN name_keys
                    ELSE Append(name_keys, name)

\* One <object> of a file that summarize_labels parses: parse_xml_file adds its
\* name to labels (44-46) and _count_names counts its stripped name (83-87)
ScanObject ==
    /\ spc = "scanning"
    /\ Len(scanned) < MaxScan
    /\ \E raw \in RawNames :
          /\ labels' = labels \cup {raw}
          /\ CountName(Strip(raw))
          /\ scanned' = Append(scanned, raw)
    /\ UNCHANGED <<spc, class_names>>
    /\ UNCHANGED exceptScan

\* The walk is over (62-63)
ScanFinish ==
    /\ spc = "scanning"
    /\ class_names' = labels
    /\ spc' = "done"
    /\ UNCHANGED <<name_count, name_keys, labels, scanned>>
    /\ UNCHANGED exceptScan

ScanNext == ScanObject \/ ScanFinish

\* sorted(self.name_count, key=self.name_count.get, reverse=True) (92): Python's
\* sort is stable and reverse=True keeps the order of equal keys.  The sort is
\* modelled as a stable insertion of the keys in dict order.
RECURSIVE InsertDescTiesFirst(_, _, _)
InsertDescTiesFirst(sorted, k, cnt) ==
    IF sorted = <<>> THEN <<k>>
    ELSE IF cnt[Head(sorted)] > cnt[k]
         THEN <<Head(sorted)>> \o InsertDescTiesFirst(Tail(sorted), k, cnt)
         ELSE <<k>> \o sorted

RECURSIVE InsertDesc(_, _, _)
InsertDesc(sorted, k, cnt) ==
    IF sorted = <<>> THEN <<k>>
    ELSE IF cnt[Head(sorted)] >= cnt[k]
         THEN <<Head(sorted)>> \o InsertDesc(Tail(sorted), k, cnt)
         ELSE <<k>> \o sorted

RECURSIVE SortedDesc(_, _)
SortedDesc(keys, cnt) ==
    IF keys = <<>> THEN <<>>
    ELSE InsertDesc(SortedDesc(SubSeq(keys, 1, Len(keys) - 1), cnt), keys[Len(keys)], cnt)

\* get_class_list (91-93)
GetClassList == SortedDesc(name_keys, name_count)


(***************************************************************************)
(* validate_yolo_dataset (check_format.py 13-240).                         *)
(***************************************************************************)
SampleLimit == 100
DetailLimit == 5
NoMax == -1

\* image_extensions (28) and the '.txt' of line 53
ImageExtensions == {".jpg", ".jpeg", ".png", ".bmp", ".gif", ".JPG", ".PNG"}
IsImageFile(f) == f[2] \in ImageExtensions
IsLabelFile(f) == f[2] = ".txt"

\* What the two directories of the model may hold: a name is the text before
\* its last dot and the text from that dot on.
ImageDirEntries == {<<"p", ".jpg">>, <<"p", ".png">>, <<"q", ".jpg">>, <<"n", ".md">>}
LabelDirEntries == {<<"p", ".txt">>, <<"r", ".txt">>, <<"n", ".md">>}

\* os.listdir: the entries of a directory, in any order
Listings(entries) == {l \in SeqsUpTo(entries, Cardinality(entries)) : NoDup(l)}

\* os.path.splitext(f)[0]: the text before the last dot, and the whole name
\* when nothing stands before that dot ('.txt' has the root '.txt')
Basename(f) == IF f[1] = "" THEN f[2] ELSE f[1]
Basenames(files) == {Basename(files[i]) : i \in 1..Len(files)}

Min(a, b) == IF a < b THEN a ELSE b

\* The text of a label line.  A field is a sequence of characters, a line is
\* line.split(): its fields in order (no field when line.strip() is empty).
Digits == {"0", "1", "2", "3", "5"}
DigitValue(c) == CASE c = "0" -> 0 [] c = "1" -> 1 [] c = "2" -> 2
                   [] c = "3" -> 3 [] c = "5" -> 5

\* the value of a sequence of digits (0 for none)
RECURSIVE DigitsValue(_)
DigitsValue(s) ==
    IF s = <<>> THEN 0
    ELSE 10 * DigitsValue(SubSeq(s, 1, Len(s) - 1)) + DigitValue(s[Len(s)])

RECURSIVE Pow10(_)
Pow10(k) == IF k = 0 THEN 1 ELSE 10 * Pow10(k - 1)

\* \d+ and [\d.]+ of yolo_line_pattern (34)
IsDigits(t) == t # <<>> /\ \A i \in 1..Len(t) : t[i] \in Digits
IsDigitsOrDots(t) == t # <<>> /\ \A i \in 1..Len(t) : t[i] \in Digits \cup {"."}

\* yolo_line_pattern.match(line): five fields separated by white space, the
\* first \d+, the others [\d.]+
PatternMatches(line) ==
    /\ Len(line) = 5
    /\ IsDigits(line[1])
    /\ \A k \in 2..5 : IsDigitsOrDots(line[k])

\* a field without its sign
Unsigned(t) == IF t # <<>> /\ t[1] = "-" THEN Tail(t) ELSE t
Sign(t) == IF t # <<>> /\ t[1] = "-" THEN -1 ELSE 1

\* int(text) returns: an optional sign and digits
IntAccepts(t) == IsDigits(Unsigned(t))
IntValue(t) == Sign(t) * DigitsValue(Unsigned(t))

\* float(text) returns: an optional sign, digits with at most one point and
\* at least one digit (exponents, inf and nan are not in the model's texts)
FloatAccepts(t) ==
    LET u == Unsigned(t)
    IN  /\ IsDigitsOrDots(u)
        /\ Cardinality({i \in 1..Len(u) : u[i] = "."}) <= 1
        /\ \E i \in 1..Len(u) : u[i] \in Digits
FloatValue(t) ==
    LET u == Unsigned(t)
        dots == {i \in 1..Len(u) : u[i] = "."}
        dot == IF dots = {} THEN Len(u) + 1 ELSE CHOOSE i \in dots : TRUE
        whole == SubSeq(u, 1, dot - 1)
        frac == SubSeq(u, dot + 1, Len(u))
    IN  Rat(Sign(t) * (DigitsValue(whole) * Pow10(Len(frac)) + DigitsValue(frac)),
            Pow10(Len(frac)))

\* The fields and the lines of the model.
ClassFields == {<<"0">>, <<"2">>, <<"-", "1">>, <<"x">>}
CoordFields == {<<"0", ".", "5">>, <<"1", ".", "5">>, <<"-", "0", ".", "5">>,
                <<"1", ".", "2", ".", "3">>}
InsideField == <<"0", ".", "5">>
BlankLine == <<>>
ShortLine == <<<<"0">>, InsideField, InsideField, InsideField>>
LabelLines ==
    {BlankLine, ShortLine}
    \cup {<<c, t, InsideField, InsideField, InsideField>> :
             c \in ClassFields, t \in CoordFields}

\* The lines of the label files of a whole run: blank, not matching, matching
\* with a field float() rejects, and class id 0 or 2 inside or outside [0, 1]
RunLines ==
    {BlankLine, ShortLine,
     <<<<"0">>, <<"1", ".", "2", ".", "3">>, InsideField, InsideField, InsideField>>}
    \cup {<<c, t, InsideField, InsideField, InsideField>> :
             c \in {<<"0">>, <<"2">>}, t \in {<<"0", ".", "5">>, <<"1", ".", "5">>}}
LabelContents == SeqsUpTo(RunLines, MaxLines)

Issue(file, line, issue) == [file |-> file, line |-> line, issue |-> issue]

\* Lines 138-155: the checks of one line that matched and whose floats parse
LineIssues(file, line_num, line, max) ==
    LET class_id == IntValue(line[1])
        inrange == \A k \in 2..5 : /\ RatLe(RatOfInt(0), FloatValue(line[k]))
                                   /\ RatLe(FloatValue(line[k]), RatOfInt(1))
    IN  (IF ~inrange THEN <<Issue(file, line_num, "range")>> ELSE <<>>)
        \o (IF max # NoMax /\ class_id > max
            THEN <<Issue(file, line_num, "class_id_max")>>
            ELSE IF class_id < 0
                 THEN <<Issue(file, line_num, "class_id_negative")>>
                 ELSE <<>>)

\* Lines 126-155: the loop over the lines from line_num on; float() raising
\* ValueError leaves the loop for the except of line 157
RECURSIVE CheckLines(_, _, _, _)
CheckLines(file, lines, line_num, max) ==
    IF line_num > Len(lines) THEN <<>>
    ELSE LET line == lines[line_num]
         IN  IF line = BlankLine THEN CheckLines(file, lines, line_num + 1, max)
             ELSE IF ~PatternMatches(line)
                  THEN <<Issue(file, line_num, "format")>>
                       \o CheckLines(file, lines, line_num + 1, max)
                  ELSE IF \E k \in 2..5 : ~FloatAccepts(line[k])
                       THEN <<Issue(file, 0, "read_error")>>
                       ELSE LineIssues(file, line_num, line, max)
                            \o CheckLines(file, lines, line_num + 1, max)

\* Lines 115-158: one label file
CheckLabelFile(file, lines, max) ==
    IF \A i \in 1..Len(lines) : lines[i] = BlankLine
    THEN <<Issue(file, 0, "empty")>>
    ELSE CheckLines(file, lines, 1, max)

\* The label syntax check applied to one label file alone (lines 115-158).
FileContents == SeqsUpTo(LabelLines, MaxFileLines)
TheLabelFile == <<"p", ".txt">>

NoCount == [labels_counter |-> <<>>, file_objects |-> <<>>, file_keys |-> <<>>,
            total |-> 0, raised |-> FALSE]

LabOff ==
    /\ lpc = "off"
    /\ flines = <<>>
    /\ lmax = NoMax
    /\ flagged = <<>>
    /\ lcount = NoCount

LabInit ==
    /\ lpc = "read"
    /\ flines \in FileContents
    /\ lmax \in {NoMax, 1}
    /\ flagged = <<>>
    /\ lcount = NoCount

LabCheck ==
    /\ lpc = "read"
    /\ flagged' = CheckLabelFile(TheLabelFile, flines, lmax)
    /\ lpc' = "checked"
    /\ UNCHANGED <<flines, lmax, lcount>>
    /\ UNCHANGED exceptLab

\* all_errors.append(header) without the details
ErrorEntriesHeaderOnly(category, count) ==
    IF count = 0 THEN <<>>
    ELSE <<[kind |-> "header", category |-> category, n |-> count]>>

\* all_errors.append(header); all_errors.extend(details[:5]) (80-90, 106-110,
\* 160-164); a detail is named by its position in the list it comes from
ErrorEntries(category, count) ==
    IF count = 0 THEN <<>>
    ELSE <<[kind |-> "header", category |-> category, n |-> count]>>
         \o [k \in 1..Min(count, DetailLimit) |->
               [kind |-> "detail", category |-> category, n |-> k]]

NoInfo == [total_images |-> 0, total_labels |-> 0, matched_pairs |-> 0,
           images_without_label |-> {}, labels_without_image |-> {}]
NoResult == [keys |-> {}, success |-> FALSE, error_count |-> 0, errors |-> <<>>]
NoReport == [written |-> FALSE, errors |-> <<>>]

ValOff ==
    /\ vpc = "off"
    /\ images_exist = FALSE
    /\ labels_exist = FALSE
    /\ max_class_id = NoMax
    /\ image_files = <<>>
    /\ label_files = <<>>
    /\ correspondence_info = NoInfo
    /\ lidx = 1
    /\ broken_images = <<>>
    /\ invalid_annotations = <<>>
    /\ all_errors = <<>>
    /\ result = NoResult
    /\ report = NoReport
    /\ stages = <<>>

\* The call: lines 27-38
ValInit ==
    /\ vpc = "Init"
    /\ images_exist \in BOOLEAN
    /\ labels_exist \in BOOLEAN
    /\ max_class_id \in {NoMax, 1}
    /\ image_files = <<>>
    /\ label_files = <<>>
    /\ correspondence_info = NoInfo
    /\ lidx = 1
    /\ broken_images = <<>>
    /\ invalid_annotations = <<>>
    /\ all_errors = <<>>
    /\ result = NoResult
    /\ report = NoReport
    /\ stages = <<"Init">>

Enter(stage) ==
    /\ vpc' = stage
    /\ stages' = Append(stages, stage)

\* Lines 40-49: a missing directory returns at once
ValCheckDirs ==
    /\ vpc = "Init"
    /\ IF images_exist /\ labels_exist
       THEN /\ Enter("ScanningFiles")
            /\ UNCHANGED result
       ELSE /\ Enter("Done")
            /\ result' = [NoResult EXCEPT !.keys = {"success", "error", "report_path"}]
    /\ UNCHANGED <<images_exist, labels_exist, max_class_id, image_files, label_files,
                   correspondence_info, lidx, broken_images, invalid_annotations,
                   all_errors, report>>
    /\ UNCHANGED exceptVal

\* Lines 51-67: the two listings
ValScan ==
    /\ vpc = "ScanningFiles"
    /\ \E il \in Listings(ImageDirEntries), ll \in Listings(LabelDirEntries) :
          /\ image_files' = SelectSeq(il, IsImageFile)
          /\ label_files' = SelectSeq(ll, IsLabelFile)
    /\ Enter("CheckingCorrespondence")
    /\ UNCHANGED <<images_exist, labels_exist, max_class_id, correspondence_info, lidx,
                   broken_images, invalid_annotations, all_errors, result, report>>
    /\ UNCHANGED exceptVal

\* Lines 64-90, with the pairs counted from the two list lengths
ValCorrespondByCount ==
    /\ vpc = "CheckingCorrespondence"
    /\ LET image_basenames == Basenames(image_files)
           label_basenames == Basenames(label_files)
           images_without_label == image_basenames \ label_basenames
           labels_without_image == label_basenames \ image_basenames
       IN  /\ correspondence_info' =
                 [total_images |-> Len(image_files),
                  total_labels |-> Len(label_files),
                  matched_pairs |-> Min(Len(image_files), Len(label_files)),
                  images_without_label |-> images_without_label,
                  labels_without_image |-> labels_without_image]
           /\ all_errors' = all_errors
                 \o ErrorEntries("images_without_label", Cardinality(images_without_label))
                 \o ErrorEntries("labels_without_image", Cardinality(labels_without_image))
    /\ Enter("SamplingImageIntegrity")
    /\ UNCHANGED <<images_exist, labels_exist, max_class_id, image_files, label_files,
                   lidx, broken_images, invalid_annotations, result, report>>
    /\ UNCHANGED exceptVal

\* Lines 64-90
ValCorrespond ==
    /\ vpc = "CheckingCorrespondence"
    /\ LET image_basenames == Basenames(image_files)
           label_basenames == Basenames(label_files)
           images_without_label == image_basenames \ label_basenames
           labels_without_image == label_basenames \ image_basenames
       IN  /\ correspondence_info' =
                 [total_images |-> Len(image_files),
                  total_labels |-> Len(label_files),
                  matched_pairs |-> Cardinality(image_basenames \cap label_basenames),
                  images_without_label |-> images_without_label,
                  labels_without_image |-> labels_without_image]
           /\ all_errors' = all_errors
                 \o ErrorEntries("images_without_label", Cardinality(images_without_label))
                 \o ErrorEntries("labels_without_image", Cardinality(labels_without_image))
    /\ Enter("SamplingImageIntegrity")
    /\ UNCHANGED <<images_exist, labels_exist, max_class_id, image_files, label_files,
                   lidx, broken_images, invalid_annotations, result, report>>
    /\ UNCHANGED exceptVal

\* The correspondence of lines 64-90 over directories that also hold names
\* starting with a dot: the run after the two listings of lines 51-53
PairImageEntries == {<<"p", ".jpg">>, <<"p", ".png">>, <<"q", ".jpg">>, <<"", ".jpg">>}
PairLabelEntries == {<<"p", ".txt">>, <<"r", ".txt">>, <<"", ".txt">>, <<".txt", ".txt">>}
PairsInit ==
    /\ vpc = "CheckingCorrespondence"
    /\ images_exist = TRUE
    /\ labels_exist = TRUE
    /\ max_class_id = NoMax
    /\ image_files \in Listings(PairImageEntries)
    /\ label_files \in Listings(PairLabelEntries)
    /\ correspondence_info = NoInfo
    /\ lidx = 1
    /\ broken_images = <<>>
    /\ invalid_annotations = <<>>
    /\ all_errors = <<>>
    /\ result = NoResult
    /\ report = NoReport
    /\ stages = <<"Init", "ScanningFiles", "CheckingCorrespondence">>

PairsNext == ValCorrespond

\* Lines 92-110: random.sample draws sample_size files in a random order, and
\* cv2.imread fails on any of them
ValSampleSkipsLabels ==
    /\ vpc = "SamplingImageIntegrity"
    /\ LET sample_size == Min(SampleLimit, Len(image_files))
       IN  \E sampled \in {l \in SeqsUpTo(Range(image_files), sample_size) :
                              NoDup(l) /\ Len(l) = sample_size} :
           \E bad \in SUBSET Range(sampled) :
              /\ broken_images' = SelectSeq(sampled, LAMBDA f : f \in bad)
              /\ all_errors' = all_errors \o ErrorEntries("broken_images", Cardinality(bad))
    /\ IF image_files = <<>> THEN Enter("Reporting") ELSE Enter("CheckingLabelSyntax")
    /\ lidx' = 1
    /\ UNCHANGED <<images_exist, labels_exist, max_class_id, image_files, label_files,
                   correspondence_info, invalid_annotations, result, report>>
    /\ UNCHANGED exceptVal

ValSample ==
    /\ vpc = "SamplingImageIntegrity"
    /\ LET sample_size == Min(SampleLimit, Len(image_files))
       IN  \E sampled \in {l \in SeqsUpTo(Range(image_files), sample_size) :
                              NoDup(l) /\ Len(l) = sample_size} :
           \E bad \in SUBSET Range(sampled) :
              /\ broken_images' = SelectSeq(sampled, LAMBDA f : f \in bad)
              /\ all_errors' = all_errors \o ErrorEntries("broken_images", Cardinality(bad))
    /\ Enter("CheckingLabelSyntax")
    /\ lidx' = 1
    /\ UNCHANGED <<images_exist, labels_exist, max_class_id, image_files, label_files,
                   correspondence_info, invalid_annotations, result, report>>
    /\ UNCHANGED exceptVal

\* Lines 113-158: one pass of the loop over label_files
ValLabelFile ==
    /\ vpc = "CheckingLabelSyntax"
    /\ lidx <= Len(label_files)
    /\ \E lines \in LabelContents :
          invalid_annotations' =
              invalid_annotations \o CheckLabelFile(label_files[lidx], lines, max_class_id)
    /\ lidx' = lidx + 1
    /\ UNCHANGED <<vpc, stages, images_exist, labels_exist, max_class_id, image_files,
                   label_files, correspondence_info, broken_images, all_errors, result,
                   report>>
    /\ UNCHANGED exceptVal

\* Lines 160-166, with the flagged annotations left out of all_errors
ValLabelsCheckedSilent ==
    /\ vpc = "CheckingLabelSyntax"
    /\ lidx > Len(label_files)
    /\ Enter("Reporting")
    /\ UNCHANGED <<images_exist, labels_exist, max_class_id, image_files, label_files,
                   correspondence_info, lidx, broken_images, invalid_annotations, result,
                   report, all_errors>>
    /\ UNCHANGED exceptVal

\* Lines 160-166: the loop is over
ValLabelsChecked ==
    /\ vpc = "CheckingLabelSyntax"
    /\ lidx > Len(label_files)
    /\ all_errors' = all_errors
          \o ErrorEntries("invalid_annotations", Len(invalid_annotations))
    /\ Enter("Reporting")
    /\ UNCHANGED <<images_exist, labels_exist, max_class_id, image_files, label_files,
                   correspondence_info, lidx, broken_images, invalid_annotations, result,
                   report>>
    /\ UNCHANGED exceptVal

\* Lines 168-240: the summary, the report file and the return
ValReport ==
    /\ vpc = "Reporting"
    /\ LET success == Len(all_errors) = 0
       IN  /\ report' = [written |-> TRUE, errors |-> all_errors]
           /\ result' = [keys |-> {"success", "report_path", "correspondence_info",
                                   "error_count", "errors"},
                         success |-> success,
                         error_count |-> Len(all_errors),
                         errors |-> all_errors]
    /\ Enter("Done")
    /\ UNCHANGED <<images_exist, labels_exist, max_class_id, image_files, label_files,
                   correspondence_info, lidx, broken_images, invalid_annotations,
                   all_errors>>
    /\ UNCHANGED exceptVal

ValNext ==
    \/ ValCheckDirs
    \/ ValScan
    \/ ValCorrespond
    \/ ValSample
    \/ ValLabelFile
    \/ ValLabelsChecked
    \/ ValReport

(***************************************************************************)
(* XMLtoTXTConverter.__init__ (xmlTools.py 106-132).                       *)
(***************************************************************************)
\* class_dir: given or not; class_list and class_map_dist: None or empty (<<>>)
\* or the list and the table of the model
CtorCalls == [class_dir : BOOLEAN, class_list : {<<>>, TheList},
              class_map_dist : {<<>>, TheMap}]

CtorOff ==
    /\ ctor_pc = "off"
    /\ ctor_args = [class_dir |-> FALSE, class_list |-> <<>>, class_map_dist |-> <<>>]
    /\ out_dir_made = FALSE

CtorInit ==
    /\ ctor_pc = "call"
    /\ ctor_args \in CtorCalls
    /\ out_dir_made = FALSE

\* Lines 113-115: none of the three class sources is given: exit()
CtorExits ==
    /\ ctor_pc = "call"
    /\ ~(ctor_args.class_dir \/ Truthy(ctor_args.class_list)
            \/ Truthy(ctor_args.class_map_dist))
    /\ ctor_pc' = "exited"
    /\ UNCHANGED <<ctor_args, out_dir_made>>
    /\ UNCHANGED exceptCtor

\* Lines 113-132 with the test of line 113 left out
CtorMakesDirFirst ==
    /\ ctor_pc = "call"
    /\ out_dir_made' = TRUE
    /\ ctor_pc' = "constructed"
    /\ UNCHANGED ctor_args
    /\ UNCHANGED exceptCtor

\* Lines 113-132 with a class source: os.makedirs(self.out_dir, exist_ok=True)
CtorConstructs ==
    /\ ctor_pc = "call"
    /\ (ctor_args.class_dir \/ Truthy(ctor_args.class_list)
            \/ Truthy(ctor_args.class_map_dist))
    /\ out_dir_made' = TRUE
    /\ ctor_pc' = "constructed"
    /\ UNCHANGED ctor_args
    /\ UNCHANGED exceptCtor

CtorNext == CtorExits \/ CtorConstructs

(***************************************************************************)
(* split_dataset (split_dataset.py 118-304).                               *)
(***************************************************************************)
\* The arguments of the model.  images_dir and labels_dir after lines 141-151:
\* one or two directories each, labels_dir None giving the images directories.
ImagesDirLists == {<<TRUE>>, <<TRUE, TRUE>>, <<FALSE>>, <<TRUE, FALSE>>}
LabelsDirLists == {<<TRUE>>, <<TRUE, TRUE>>, <<FALSE>>}
TrainvalPercents == {<<0, 1>>, <<1, 2>>, <<4, 5>>, <<1, 1>>}
TrainPercents == {<<0, 1>>, <<3, 4>>, <<1, 1>>}

\* The argument random_seed and the states of the generator of the random
\* module: Entropy is the generator nobody seeded, whose draws are not known
NoSeed == -1
Seeds == {NoSeed, 0, 1}
Entropy == -1
RngStates == 0..(RngSize - 1)

\* random.seed(a) with an int: the state is a function of a alone
SeedState(a) == a % RngSize

\* The state after k draws
Advance(state, k) == (state + k) % RngSize

RemoveAt(seq, i) == SubSeq(seq, 1, i - 1) \o SubSeq(seq, i + 1, Len(seq))

\* random.sample(population, k) from a known state: every pick is a function
\* of the state before it
RECURSIVE Draw(_, _, _)
Draw(state, population, k) ==
    IF k = 0
    THEN <<>>
    ELSE LET i == (state % Len(population)) + 1
         IN  <<population[i]>> \o Draw(Advance(state, 1), RemoveAt(population, i), k - 1)

\* An item of all_image_info (189): the directory pair it comes from, its file
\* in the images directory of the pair, and the labels directories that hold
\* base_name + '.txt'.  The items of the first pair come before those of the
\* second (177-189), the files of one directory are distinct (os.listdir), and
\* a labels directory that does not exist holds nothing.  In the model the
\* label file of an item lies in at most one labels directory.
LabelDirs(lbl_dirs) == {d \in 1..Len(lbl_dirs) : lbl_dirs[d]}
Items(lbl_dirs) ==
    {it \in [pair : 1..Len(lbl_dirs), labels_in : SUBSET LabelDirs(lbl_dirs)] :
        Cardinality(it.labels_in) <= 1}
Collections(lbl_dirs) ==
    {[i \in 1..Len(c) |->
         [pair |-> c[i].pair,
          file |-> Cardinality({j \in 1..i : c[j].pair = c[i].pair}),
          labels_in |-> c[i].labels_in]] :
       c \in {c \in SeqsUpTo(Items(lbl_dirs), MaxItems) :
                 \A i, j \in 1..Len(c) : i < j => c[i].pair <= c[j].pair}}

\* Lines 203-206 looking for the label file in the first labels directory
LabelExistsInFirstDir(it) == 1 \in it.labels_in

\* Lines 203-206: os.path.exists(os.path.join(lbl_dir, base_name + '.txt'))
\* with the lbl_dir of the item's own pair
LabelExists(it) == it.pair \in it.labels_in

\* get_file_path (251-256): the images directory of the item and its file
get_file_path(info, idx) == <<info[idx + 1].pair, info[idx + 1].file>>

NoNums == [total |-> 0, trainval |-> 0, train |-> 0, val |-> 0, test |-> 0]
NoLists == [trainval |-> <<>>, train |-> <<>>, val |-> <<>>, test |-> <<>>]
NoListFiles == [written |-> {}, train |-> <<>>, val |-> <<>>, test |-> <<>>,
                trainval |-> <<>>]
NoSplitResult == [keys |-> {}, total |-> 0, train |-> 0, val |-> 0, test |-> 0,
                  trainval |-> 0]
NoFirstRun == [info |-> <<>>, lists |-> NoLists]

SplitOff ==
    /\ split_pc = "off"
    /\ images_dir_list = <<>>
    /\ labels_dir_list = <<>>
    /\ trainval_percent = <<1, 1>>
    /\ train_percent = <<1, 1>>
    /\ all_image_info = <<>>
    /\ collected = <<>>
    /\ use_valid_only = ""
    /\ output_made = FALSE
    /\ nums = NoNums
    /\ index_lists = NoLists
    /\ list_files = NoListFiles
    /\ split_result = NoSplitResult
    /\ split_exc = "none"
    /\ random_seed = NoSeed
    /\ rng = Entropy
    /\ run = 1
    /\ first_run = NoFirstRun

\* The call, after the arguments are put in list form (141-151)
SplitInit ==
    /\ split_pc = "args"
    /\ images_dir_list \in ImagesDirLists
    /\ labels_dir_list \in LabelsDirLists \cup {images_dir_list}
    /\ trainval_percent \in TrainvalPercents
    /\ train_percent \in TrainPercents
    /\ all_image_info = <<>>
    /\ collected = <<>>
    /\ use_valid_only = ""
    /\ output_made = FALSE
    /\ nums = NoNums
    /\ index_lists = NoLists
    /\ list_files = NoListFiles
    /\ split_result = NoSplitResult
    /\ split_exc = "none"
    /\ random_seed \in Seeds
    /\ rng \in {Entropy} \cup RngStates
    /\ run = 1
    /\ first_run = NoFirstRun

SplitRaise(e) ==
    /\ split_pc' = "raised"
    /\ split_exc' = e

\* Lines 153-171 without the call of random.seed
SplitCheckArgsUnseeded ==
    /\ split_pc = "args"
    /\ IF Len(images_dir_list) # Len(labels_dir_list)
       THEN SplitRaise("ValueError: directory counts differ")
       ELSE IF \E i \in 1..Len(images_dir_list) : ~images_dir_list[i]
            THEN SplitRaise("ValueError: images directory missing")
            ELSE split_pc' = "collect" /\ UNCHANGED split_exc
    /\ UNCHANGED <<images_dir_list, labels_dir_list, trainval_percent, train_percent,
                   all_image_info, collected, use_valid_only, output_made, nums,
                   index_lists, list_files, split_result, random_seed, rng, run,
                   first_run>>
    /\ UNCHANGED exceptSplit

\* Lines 153-171: the directory lists must pair up and the images
\* directories must exist (a missing labels directory only warns); then the
\* generator is seeded when a seed was given
SplitCheckArgs ==
    /\ split_pc = "args"
    /\ IF Len(images_dir_list) # Len(labels_dir_list)
       THEN SplitRaise("ValueError: directory counts differ") /\ UNCHANGED rng
       ELSE IF \E i \in 1..Len(images_dir_list) : ~images_dir_list[i]
            THEN SplitRaise("ValueError: images directory missing") /\ UNCHANGED rng
            ELSE /\ split_pc' = "collect"
                 /\ rng' = IF random_seed # NoSeed THEN SeedState(random_seed) ELSE rng
                 /\ UNCHANGED split_exc
    /\ UNCHANGED <<images_dir_list, labels_dir_list, trainval_percent, train_percent,
                   all_image_info, collected, use_valid_only, output_made, nums,
                   index_lists, list_files, split_result, random_seed, run, first_run>>
    /\ UNCHANGED exceptSplit

\* Lines 173-193: the image files of every directory pair.  A second call
\* finds the directories as the first call found them.
SplitCollect ==
    /\ split_pc = "collect"
    /\ \E c \in IF run = 2 THEN {collected} ELSE Collections(labels_dir_list) :
          /\ all_image_info' = c
          /\ collected' = c
          /\ IF c = <<>>
             THEN SplitRaise("ValueError: no image files")
             ELSE split_pc' = "labels" /\ UNCHANGED split_exc
    /\ UNCHANGED <<images_dir_list, labels_dir_list, trainval_percent, train_percent,
                   use_valid_only, output_made, nums, index_lists, list_files,
                   split_result, random_seed, rng, run, first_run>>
    /\ UNCHANGED exceptSplit

\* Lines 195-221 with every label file looked for in the first labels directory
SplitCheckLabelsFirstDir ==
    /\ split_pc = "labels"
    /\ LET valid_image_info == SelectSeq(all_image_info, LabelExistsInFirstDir)
       IN  IF Len(valid_image_info) < Len(all_image_info)
           THEN \E answer \in {"y", "n"} :
                   /\ use_valid_only' = answer
                   /\ all_image_info' = IF answer = "y" THEN valid_image_info
                                                          ELSE all_image_info
           ELSE UNCHANGED <<use_valid_only, all_image_info>>
    /\ split_pc' = "split"
    /\ UNCHANGED <<images_dir_list, labels_dir_list, trainval_percent, train_percent,
                   collected, output_made, nums, index_lists, list_files, split_result,
                   split_exc, random_seed, rng, run, first_run>>
    /\ UNCHANGED exceptSplit

\* Lines 195-221: the label files; the answer is asked only when one is missing
SplitCheckLabels ==
    /\ split_pc = "labels"
    /\ LET valid_image_info == SelectSeq(all_image_info, LabelExists)
       IN  IF Len(valid_image_info) < Len(all_image_info)
           THEN \E answer \in {"y", "n"} :
                   /\ use_valid_only' = answer
                   /\ all_image_info' = IF answer = "y" THEN valid_image_info
                                                          ELSE all_image_info
           ELSE UNCHANGED <<use_valid_only, all_image_info>>
    /\ split_pc' = "split"
    /\ UNCHANGED <<images_dir_list, labels_dir_list, trainval_percent, train_percent,
                   collected, output_made, nums, index_lists, list_files, split_result,
                   split_exc, random_seed, rng, run, first_run>>
    /\ UNCHANGED exceptSplit

\* random.sample(population, k): k distinct elements in a random order
Samples(population, k) == {l \in [1..k -> Range(population)] : NoDup(l)}

\* Lines 230-234 with num_val taken from the total
SplitNumsValOfTotal(num_total, trainval_pct, train_pct) ==
    LET num_trainval == PyInt(RatMul(RatOfInt(num_total), trainval_pct))
        num_train == PyInt(RatMul(RatOfInt(num_trainval), train_pct))
    IN  [total |-> num_total, trainval |-> num_trainval, train |-> num_train,
         val |-> num_total - num_train, test |-> num_total - num_trainval]

\* Lines 230-234
SplitNums(num_total, trainval_pct, train_pct) ==
    LET num_trainval == PyInt(RatMul(RatOfInt(num_total), trainval_pct))
        num_train == PyInt(RatMul(RatOfInt(num_trainval), train_pct))
    IN  [total |-> num_total, trainval |-> num_trainval, train |-> num_train,
         val |-> num_trainval - num_train, test |-> num_total - num_trainval]

\* Lines 247-248 with the test items taken from outside the train items
SplitRestOutsideTrain(indices, trainval_indices, train_indices) ==
    [trainval |-> trainval_indices,
     train |-> train_indices,
     val |-> SelectSeq(trainval_indices, LAMBDA i : i \notin Range(train_indices)),
     test |-> SelectSeq(indices, LAMBDA i : i \notin Range(train_indices))]

\* Lines 247-248: val is trainval without train, test is the rest
SplitRest(indices, trainval_indices, train_indices) ==
    [trainval |-> trainval_indices,
     train |-> train_indices,
     val |-> SelectSeq(trainval_indices, LAMBDA i : i \notin Range(train_indices)),
     test |-> SelectSeq(indices, LAMBDA i : i \notin Range(trainval_indices))]

\* Lines 223-248: the output directory, the numbers and the random split.
\* The two samples are drawn one after the other from the generator.
SplitSample ==
    /\ split_pc = "split"
    /\ output_made' = TRUE
    /\ LET n == SplitNums(Len(all_image_info), trainval_percent, train_percent)
           indices == [i \in 1..Len(all_image_info) |-> i - 1]
       IN  /\ nums' = n
           /\ IF rng = Entropy
              THEN /\ \E trainval_indices \in Samples(indices, n.trainval) :
                      \E train_indices \in Samples(trainval_indices, n.train) :
                         index_lists' = SplitRest(indices, trainval_indices,
                                                  train_indices)
                   /\ UNCHANGED rng
              ELSE LET trainval_indices == Draw(rng, indices, n.trainval)
                       train_indices == Draw(Advance(rng, n.trainval),
                                             trainval_indices, n.train)
                   IN  /\ index_lists' = SplitRest(indices, trainval_indices,
                                                   train_indices)
                       /\ rng' = Advance(rng, n.trainval + n.train)
    /\ split_pc' = "write"
    /\ UNCHANGED <<images_dir_list, labels_dir_list, trainval_percent, train_percent,
                   all_image_info, collected, use_valid_only, list_files, split_result,
                   split_exc, random_seed, run, first_run>>
    /\ UNCHANGED exceptSplit

\* The lines the loop at 278-281 writes to one list file
PathsOf(info, indices_list) ==
    [k \in 1..Len(indices_list) |-> get_file_path(info, indices_list[k])]

\* Lines 267-304: the four list files and the return
SplitWrite ==
    /\ split_pc = "write"
    /\ list_files' = [written |-> {"train", "val", "test", "trainval"},
                      train |-> PathsOf(all_image_info, index_lists.train),
                      val |-> PathsOf(all_image_info, index_lists.val),
                      test |-> PathsOf(all_image_info, index_lists.test),
                      trainval |-> PathsOf(all_image_info, index_lists.trainval)]
    /\ split_result' = [keys |-> {"total", "train", "val", "test", "trainval",
                                  "output_dir"},
                        total |-> nums.total, train |-> nums.train, val |-> nums.val,
                        test |-> nums.test, trainval |-> nums.trainval]
    /\ split_pc' = "done"
    /\ UNCHANGED <<images_dir_list, labels_dir_list, trainval_percent, train_percent,
                   all_image_info, collected, use_valid_only, output_made, nums,
                   index_lists, split_exc, random_seed, rng, run, first_run>>
    /\ UNCHANGED exceptSplit

SplitNext ==
    \/ SplitCheckArgs
    \/ SplitCollect
    \/ SplitCheckLabels
    \/ SplitSample
    \/ SplitWrite

\* A second call of split_dataset in the same process, with the same
\* arguments, whatever the generator was used for in between
SplitRerun ==
    /\ split_pc = "done"
    /\ run = 1
    /\ run' = 2
    /\ first_run' = [info |-> all_image_info, lists |-> index_lists]
    /\ rng' \in {Entropy} \cup RngStates
    /\ split_pc' = "args"
    /\ all_image_info' = <<>>
    /\ use_valid_only' = ""
    /\ output_made' = FALSE
    /\ nums' = NoNums
    /\ index_lists' = NoLists
    /\ list_files' = NoListFiles
    /\ split_result' = NoSplitResult
    /\ UNCHANGED <<images_dir_list, labels_dir_list, trainval_percent, train_percent,
                   collected, split_exc, random_seed>>
    /\ UNCHANGED exceptSplit

RerunNext == SplitNext \/ SplitRerun

\* The three tools that check their configuration before they write.
ConfigNext == CtorNext \/ SplitNext \/ ValNext

(***************************************************************************)
(* YOLOLabelAnalyzer.analyze_labels_distribution                           *)
(* (yolo_labels_distribution.py 129-188).                                  *)
(***************************************************************************)
\* range(100) of line 149
ClassSlots == 100

\* The lines of the model's label files, each as line.split(): blank, four
\* fields, and five fields with the class id 0, 100 or x.
DistClassFields == {<<"0">>, <<"1", "0", "0">>, <<"x">>}
DistLines ==
    {BlankLine, ShortLine}
    \cup {<<c, InsideField, InsideField, InsideField, InsideField>> :
             c \in DistClassFields}
DistContents == SeqsUpTo(DistLines, MaxDistLines)

\* The .txt files under labels_path, as <<directory, basename>>; exclude_files
\* (141) names the basenames that are not label files.
DistPaths == {<<"", "a">>, <<"sub", "b">>, <<"", "classes">>}
ExcludeFiles == {"classes", "train", "val", "test"}
ClassesFileLines == <<<<<<"x">>>>>>

\* glob.glob(labels_path/**/*.txt): the files found, in the order paths, each
\* label file with the lines contents gives it
LabelPaths == {q \in DistPaths : q[2] \notin ExcludeFiles}
Corpus(paths, contents) ==
    [i \in 1..Len(paths) |->
        [path |-> paths[i],
         lines |-> IF paths[i][2] \in ExcludeFiles THEN ClassesFileLines
                   ELSE contents[paths[i]]]]

\* counter[key] += 1 on a Counter
Inc(counter, key) ==
    [k \in DOMAIN counter \cup {key} |->
        IF k = key THEN (IF k \in DOMAIN counter THEN counter[k] ELSE 0) + 1
        ELSE counter[k]]

\* Lines 158-167: the lines of one file from line j on.  acc holds
\* labels_counter, file_objects (with its keys in insertion order),
\* total_objects_in_file and whether int(parts[0]) raised ValueError
RECURSIVE ReadLines(_, _, _)
ReadLines(lines, j, acc) ==
    IF j > Len(lines) THEN acc
    ELSE LET parts == lines[j]
         IN  IF parts = BlankLine \/ Len(parts) < 5
             THEN ReadLines(lines, j + 1, acc)
             ELSE IF ~IntAccepts(parts[1])
                  THEN [acc EXCEPT !.raised = TRUE]
                  ELSE LET class_id == IntValue(parts[1])
                       IN  ReadLines(lines, j + 1,
                              [acc EXCEPT
                                 !.labels_counter = Inc(@, class_id),
                                 !.file_objects = Inc(@, class_id),
                                 !.file_keys = IF class_id \in Range(@) THEN @
                                               ELSE Append(@, class_id),
                                 !.total = @ + 1])

\* Lines 173-174: the loop over file_objects.items() from its i-th key on;
\* a class id that is not a key of class_objects_per_image raises KeyError
RECURSIVE CountPerClass(_, _, _, _)
CountPerClass(file_keys, i, file_objects, per_class) ==
    IF i > Len(file_keys) THEN [per_class |-> per_class, raised |-> FALSE]
    ELSE IF file_keys[i] \notin DOMAIN per_class
         THEN [per_class |-> per_class, raised |-> TRUE]
         ELSE CountPerClass(file_keys, i + 1, file_objects,
                 [per_class EXCEPT ![file_keys[i]] = Inc(@, file_objects[file_keys[i]])])

DistOff ==
    /\ dist_pc = "off"
    /\ found_files = <<>>
    /\ txt_files = <<>>
    /\ dist_idx = 1
    /\ labels_counter = <<>>
    /\ total_objects = 0
    /\ total_label_files = 0
    /\ objects_per_image = <<>>
    /\ class_objects_per_image = <<>>
    /\ failed_files = {}
    /\ dist_return = "none"

\* A fresh analyzer (30-40) whose analyze_labels_distribution is called
DistInit ==
    /\ dist_pc = "start"
    /\ \E paths \in Listings(DistPaths) :
       \E contents \in [LabelPaths -> DistContents] :
          found_files = Corpus(paths, contents)
    /\ txt_files = <<>>
    /\ dist_idx = 1
    /\ labels_counter = <<>>
    /\ total_objects = 0
    /\ total_label_files = 0
    /\ objects_per_image = <<>>
    /\ class_objects_per_image = <<>>
    /\ failed_files = {}
    /\ dist_return = "none"

\* Lines 133-150: the file list, the exclusions, the 100 empty counters
DistStart ==
    /\ dist_pc = "start"
    /\ IF found_files = <<>>
       THEN /\ dist_pc' = "done"
            /\ dist_return' = "False"
            /\ UNCHANGED <<txt_files, total_label_files, class_objects_per_image>>
       ELSE /\ txt_files' = SelectSeq(found_files,
                                      LAMBDA f : f.path[2] \notin ExcludeFiles)
            /\ total_label_files' = Len(txt_files')
            /\ class_objects_per_image' = [class_id \in 0..(ClassSlots - 1) |-> <<>>]
            /\ dist_pc' = "files"
            /\ UNCHANGED dist_return
    /\ UNCHANGED <<found_files, dist_idx, labels_counter, total_objects,
                   objects_per_image, failed_files>>
    /\ UNCHANGED exceptDist

\* Lines 152-177: one pass of the loop over txt_files
DistFile ==
    /\ dist_pc = "files"
    /\ dist_idx <= Len(txt_files)
    /\ LET read == ReadLines(txt_files[dist_idx].lines, 1,
                             [labels_counter |-> labels_counter,
                              file_objects |-> <<>>, file_keys |-> <<>>,
                              total |-> 0, raised |-> FALSE])
           counted == CountPerClass(read.file_keys, 1, read.file_objects,
                                    class_objects_per_image)
       IN  /\ labels_counter' = read.labels_counter
           /\ IF read.raised
              THEN /\ UNCHANGED <<objects_per_image, class_objects_per_image>>
                   /\ failed_files' = failed_files \cup {dist_idx}
              ELSE /\ objects_per_image' = Inc(objects_per_image, read.total)
                   /\ class_objects_per_image' = counted.per_class
                   /\ failed_files' = IF counted.raised
                                      THEN failed_files \cup {dist_idx}
                                      ELSE failed_files
    /\ dist_idx' = dist_idx + 1
    /\ UNCHANGED <<dist_pc, found_files, txt_files, total_objects, total_label_files,
                   dist_return>>
    /\ UNCHANGED exceptDist

\* Lines 179-188: the unused classes are dropped, the total is summed
RECURSIVE SumOver(_, _)
SumOver(counter, keys) ==
    IF keys = {} THEN 0
    ELSE LET k == CHOOSE k \in keys : TRUE
         IN  counter[k] + SumOver(counter, keys \ {k})

DistFinish ==
    /\ dist_pc = "files"
    /\ dist_idx > Len(txt_files)
    /\ class_objects_per_image' =
          [k \in {c \in DOMAIN class_objects_per_image :
                     /\ Truthy(class_objects_per_image[c])
                     /\ c \in DOMAIN labels_counter} |-> class_objects_per_image[k]]
    /\ IF ~Truthy(labels_counter)
       THEN /\ dist_return' = "False"
            /\ UNCHANGED total_objects
       ELSE /\ total_objects' = SumOver(labels_counter, DOMAIN labels_counter)
            /\ dist_return' = "True"
    /\ dist_pc' = "done"
    /\ UNCHANGED <<found_files, txt_files, dist_idx, labels_counter, total_label_files,
                   objects_per_image, failed_files>>
    /\ UNCHANGED exceptDist

DistNext == DistStart \/ DistFile \/ DistFinish

\* The analyzer's loop over the lines (158-167) with the first line left out
LabAnalyzeFromSecondLine ==
    /\ lpc = "checked"
    /\ lcount' = ReadLines(flines, 2, NoCount)
    /\ lpc' = "analyzed"
    /\ UNCHANGED <<flines, lmax, flagged>>
    /\ UNCHANGED exceptLab

\* The label file the validator checked, read by a fresh analyzer (158-167)
LabAnalyze ==
    /\ lpc = "checked"
    /\ lcount' = ReadLines(flines, 1, NoCount)
    /\ lpc' = "analyzed"
    /\ UNCHANGED <<flines, lmax, flagged>>
    /\ UNCHANGED exceptLab

LabNext == LabCheck \/ LabAnalyze

(***************************************************************************)
(* TxtToXmlConverter.convert (xmlTools.py 249-359).  A label file is its   *)
(* name, as the text before the first dot and the rest, and the number of  *)
(* its lines; every line is a well-formed label line.  A document is the   *)
(* sequence of what was written to it: the header that opens <annotation>, *)
(* one <object> block per line, the closing </annotation>.                 *)
(***************************************************************************)
ImgNames == {"a", "b"}
NameRests == {"txt", "v2.txt"}
TxtFiles == [img_name : ImgNames, rest : NameRests, lines : 0..MaxTxtLines]

\* os.listdir(self.txt_path): files with distinct names, in any order
TxtListings ==
    {l \in SeqsUpTo(TxtFiles, MaxTxtFiles) :
        \A i, j \in 1..Len(l) :
            i # j => <<l[i].img_name, l[i].rest>> # <<l[j].img_name, l[j].rest>>}

OpenTag == [tag |-> "<annotation>", file |-> 0, line |-> 0]
CloseTag == [tag |-> "</annotation>", file |-> 0, line |-> 0]
ObjectBlock(f, k) == [tag |-> "<object>", file |-> f, line |-> k]
\* a document another run left in the output directory
OldDocument == <<OpenTag, ObjectBlock(0, 1), CloseTag>>
NoDocument == <<>>

TxtOff ==
    /\ tpc = "off"
    /\ listed_files = <<>>
    /\ img_path = {}
    /\ xml_path = [n \in ImgNames |-> NoDocument]
    /\ pre_img_name = ""
    /\ tidx = 1

\* Lines 249-257: the listing, and pre_img_name = ''
TxtInit ==
    /\ tpc = "files"
    /\ listed_files \in TxtListings
    /\ img_path \in SUBSET ImgNames
    /\ xml_path \in [ImgNames -> {NoDocument, OldDocument}]
    /\ pre_img_name = ""
    /\ tidx = 1

\* Lines 295-357: the rows of file f from row k on.  st holds the document
\* of img_name and pre_img_name
RECURSIVE WriteRows(_, _, _, _, _)
WriteRows(f, img_name, k, n, st) ==
    IF k > n THEN st
    ELSE LET closing == IF k = n THEN <<CloseTag>> ELSE <<>>
         IN  IF img_name # st.pre
             THEN WriteRows(f, img_name, k + 1, n,
                     [doc |-> <<OpenTag, ObjectBlock(f, k)>> \o closing,
                      pre |-> img_name])
             ELSE WriteRows(f, img_name, k + 1, n,
                     [doc |-> st.doc \o <<ObjectBlock(f, k)>> \o closing,
                      pre |-> st.pre])

\* Lines 260-357: one file of the listing
TxtFile ==
    /\ tpc = "files"
    /\ tidx <= Len(listed_files)
    /\ LET file == listed_files[tidx]
           img_name == file.img_name
       IN  IF img_name \notin img_path
           THEN UNCHANGED <<xml_path, pre_img_name>>
           ELSE LET st == WriteRows(tidx, img_name, 1, file.lines,
                                    [doc |-> xml_path[img_name], pre |-> pre_img_name])
                IN  /\ xml_path' = [xml_path EXCEPT ![img_name] = st.doc]
                    /\ pre_img_name' = st.pre
    /\ tidx' = tidx + 1
    /\ UNCHANGED <<tpc, listed_files, img_path>>
    /\ UNCHANGED exceptTxt

\* Line 359: the loop is over
TxtFinish ==
    /\ tpc = "files"
    /\ tidx > Len(listed_files)
    /\ tpc' = "done"
    /\ UNCHANGED <<listed_files, img_path, xml_path, pre_img_name, tidx>>
    /\ UNCHANGED exceptTxt

TxtNext == TxtFile \/ TxtFinish

(***************************************************************************)
(* XmlNameModify.modify (xmlTools.py 436-464).  An XML file is the         *)
(* sequence of its objects in document order, each with the text of its    *)
(* name and of its name_old ("none" when it has no name_old element).      *)
(***************************************************************************)
XmlNames == {"a", "b"}
XmlObjects == [name : XmlNames, name_old : {"none", "a"}]
XmlTrees == SeqsUpTo(XmlObjects, MaxXmlObjs)

NameOff ==
    /\ npc = "off"
    /\ xml_files = <<>>
    /\ orig_files = <<>>
    /\ old_name = ""
    /\ new_name = ""
    /\ nidx = 1
    /\ rewritten = {}

\* The call modify(old_name, new_name) over one or two XML files
NameInit ==
    /\ npc = "walk"
    /\ \E t1 \in XmlTrees : \E t2 \in XmlTrees :
          xml_files \in {<<t1>>, <<t1, t2>>}
    /\ orig_files = xml_files
    /\ old_name \in XmlNames
    /\ new_name \in XmlNames
    /\ nidx = 1
    /\ rewritten = {}

\* Lines 446-460 without the break: every object named old is renamed
ModifyTreeNoBreak(objects, old, new) ==
    [i \in 1..Len(objects) |->
        IF objects[i].name = old THEN [name |-> new, name_old |-> old]
        ELSE objects[i]]

\* Lines 446-460: the first object of root.iter('object') named old gets
\* name_old = old and name = new, and the loop breaks
ModifyTree(objects, old, new) ==
    IF \E i \in 1..Len(objects) : objects[i].name = old
    THEN LET first == CHOOSE i \in 1..Len(objects) :
                          /\ objects[i].name = old
                          /\ \A j \in 1..(i - 1) : objects[j].name # old
         IN  [objects EXCEPT ![first] = [name |-> new, name_old |-> old]]
    ELSE objects

\* Lines 441-460: one file of the walk; tree.write runs only in the branch
\* that found the name
NameFile ==
    /\ npc = "walk"
    /\ nidx <= Len(xml_files)
    /\ xml_files' = [xml_files EXCEPT ![nidx] = ModifyTree(@, old_name, new_name)]
    /\ rewritten' = IF \E i \in 1..Len(xml_files[nidx]) :
                          xml_files[nidx][i].name = old_name
                    THEN rewritten \cup {nidx}
                    ELSE rewritten
    /\ nidx' = nidx + 1
    /\ UNCHANGED <<npc, orig_files, old_name, new_name>>
    /\ UNCHANGED exceptName

\* Lines 461-462: the walk is over
NameFinish ==
    /\ npc = "walk"
    /\ nidx > Len(xml_files)
    /\ npc' = "done"
    /\ UNCHANGED <<xml_files, orig_files, old_name, new_name, nidx, rewritten>>
    /\ UNCHANGED exceptName

NameNext == NameFile \/ NameFinish

(***************************************************************************)
(* The specifications: one per tool, the other tools' variables at rest.   *)
(***************************************************************************)
InitGeom == GeomInit /\ ConvOff /\ ScanOff /\ ValOff /\ LabOff /\ CtorOff /\ SplitOff /\ DistOff
    /\ TxtOff /\ NameOff
InitConv == ConvInit /\ GeomOff /\ ScanOff /\ ValOff /\ LabOff /\ CtorOff /\ SplitOff /\ DistOff
    /\ TxtOff /\ NameOff
InitScan == ScanInit /\ GeomOff /\ ConvOff /\ ValOff /\ LabOff /\ CtorOff /\ SplitOff /\ DistOff
    /\ TxtOff /\ NameOff
InitVal  == ValInit /\ GeomOff /\ ConvOff /\ ScanOff /\ LabOff /\ CtorOff /\ SplitOff /\ DistOff
    /\ TxtOff /\ NameOff
InitLabel == LabInit /\ GeomOff /\ ConvOff /\ ScanOff /\ ValOff /\ CtorOff /\ SplitOff /\ DistOff
    /\ TxtOff /\ NameOff
InitSplit == SplitInit /\ GeomOff /\ ConvOff /\ ScanOff /\ ValOff /\ LabOff /\ CtorOff /\ DistOff
    /\ TxtOff /\ NameOff
InitRerun == InitSplit /\ random_seed # NoSeed
InitPairs ==
    /\ PairsInit /\ GeomOff /\ ConvOff /\ ScanOff /\ LabOff /\ CtorOff /\ SplitOff
    /\ DistOff /\ TxtOff /\ NameOff
InitDist ==
    /\ DistInit /\ GeomOff /\ ConvOff /\ ScanOff /\ ValOff /\ LabOff /\ CtorOff /\ SplitOff
    /\ TxtOff /\ NameOff
InitTxt ==
    /\ TxtInit /\ GeomOff /\ ConvOff /\ ScanOff /\ ValOff /\ LabOff /\ CtorOff /\ SplitOff
    /\ DistOff /\ NameOff
InitName ==
    /\ NameInit /\ GeomOff /\ ConvOff /\ ScanOff /\ ValOff /\ LabOff /\ CtorOff /\ SplitOff
    /\ DistOff /\ TxtOff
InitConfig ==
    /\ GeomOff /\ ConvOff /\ ScanOff /\ LabOff /\ DistOff /\ TxtOff /\ NameOff
    /\ \/ CtorInit /\ SplitOff /\ ValOff
       \/ CtorOff /\ SplitInit /\ ValOff
       \/ CtorOff /\ SplitOff /\ ValInit

SpecGeom == InitGeom /\ [][GeomNext]_vars
SpecConv == InitConv /\ [][ConvNext]_vars
SpecScan == InitScan /\ [][ScanNext]_vars
SpecVal  == InitVal /\ [][ValNext]_vars
SpecLabel == InitLabel /\ [][LabNext]_vars
SpecSplit == InitSplit /\ [][SplitNext]_vars
SpecRerun == InitRerun /\ [][RerunNext]_vars
SpecPairs == InitPairs /\ [][PairsNext]_vars
SpecTxt == InitTxt /\ [][TxtNext]_vars
SpecName == InitName /\ [][NameNext]_vars
SpecDist == InitDist /\ [][DistNext]_vars
SpecConfig == InitConfig /\ [][ConfigNext]_vars


(***************************************************************************)
(* The claims.                                                             *)
(***************************************************************************)
RatEq(p, q) == p[1] * q[2] = q[1] * p[2]
InUnit(p) == 0 <= p[1] /\ p[1] <= p[2]

\* the box of SpecGeom lies in the image: 0 <= xmin < xmax <= W, 0 <= ymin < ymax <= H
GeomBoxInImage ==
    /\ RatLe(RatOfInt(0), gbox[1]) /\ RatLt(gbox[1], gbox[2])
    /\ RatLe(gbox[2], RatOfInt(gsize[1]))
    /\ RatLe(RatOfInt(0), gbox[3]) /\ RatLt(gbox[3], gbox[4])
    /\ RatLe(gbox[4], RatOfInt(gsize[2]))

GeomPositiveSize == gsize[1] > 0 /\ gsize[2] > 0

\* C4: for width > 0 and height > 0 the line written holds
\* cx = ((xmin+xmax)/2)/width, cy = ((ymin+ymax)/2)/height, w = (xmax-xmin)/width,
\* h = (ymax-ymin)/height, and for a box inside the image the four lie in [0, 1].
C4_NormalizedFormula ==
    (gpc \in {"normalized", "denormalized"} /\ GeomPositiveSize) =>
        LET xmin == gbox[1]
            xmax == gbox[2]
            ymin == gbox[3]
            ymax == gbox[4]
            W == gsize[1]
            H == gsize[2]
        IN  /\ RatEq(gline[2], <<xmin[1] * xmax[2] + xmax[1] * xmin[2],
                                 2 * W * xmin[2] * xmax[2]>>)
            /\ RatEq(gline[3], <<ymin[1] * ymax[2] + ymax[1] * ymin[2],
                                 2 * H * ymin[2] * ymax[2]>>)
            /\ RatEq(gline[4], <<xmax[1] * xmin[2] - xmin[1] * xmax[2],
                                 W * xmin[2] * xmax[2]>>)
            /\ RatEq(gline[5], <<ymax[1] * ymin[2] - ymin[1] * ymax[2],
                                 H * ymin[2] * ymax[2]>>)
            /\ (GeomBoxInImage =>
                   InUnit(gline[2]) /\ InUnit(gline[3]) /\ InUnit(gline[4]) /\ InUnit(gline[5]))

\* the box (1, 3, 0, 1) of a 3 x 2 image is written as 2/3 1/4 2/3 1/2
C4_Witness ==
    /\ gpc = "normalized"
    /\ gsize = <<3, 2>>
    /\ gbox = <<<<1, 1>>, <<3, 1>>, <<0, 1>>, <<1, 1>>>>
    /\ gline = <<0, <<2, 3>>, <<1, 4>>, <<2, 3>>, <<1, 2>>>>

\* C5: a box inside an image of positive size, normalized and then read back
\* against the same image size, is the box again.
C5_RoundTrip ==
    (gpc = "denormalized" /\ gimg = gsize /\ GeomPositiveSize /\ GeomBoxInImage) =>
        gback = <<gbox[1][1], gbox[3][1], gbox[2][1], gbox[4][1]>>

\* the skips the run reported: the only thing convert prints is line 196
SkipsReported == Cardinality({i \in 1..Len(printed) : printed[i][1] = "skipped"})

\* C1: with a class list, each pass of the loop over the objects of a file does
\* this: an object whose name does not resolve leaves no line and is counted in
\* the summary; an object whose name resolves (and that has a bndbox) adds
\* exactly one line at the end of the file's text.
C1_DropCountedSiblingsConvert ==
    [][(Truthy(class_list) /\ cpc = "objects" /\ cpc' = "objects"
           /\ cur'.nobjects = cur.nobjects + 1) =>
          IF cur'.last.dropped
          THEN txtresult' = txtresult /\ SkipsReported' = SkipsReported + 1
          ELSE cur'.last.bndbox = "box" =>
                  /\ Len(txtresult') = Len(txtresult) + 1
                  /\ SubSeq(txtresult', 1, Len(txtresult)) = txtresult]_vars

ConvEnded == cpc \in {"done", "raised"}
Converted(i) ==
    LET txt == TxtName(file_path_list[i])
    IN  txt \in DOMAIN out_dir /\ txt \in DOMAIN writers /\ i \in writers[txt]

\* C2: when the run has ended, every file of the list but the bad ones has its
\* text file written.
C2_RunOutlivesBadFile ==
    ConvEnded =>
        \A i \in 1..Len(file_path_list) :
            (cpc = "raised" /\ i = fidx) \/ Converted(i)

\* C3: no two input files are written to the same output file.
C3_OneInputPerOutput ==
    \A txt \in DOMAIN writers : Cardinality(writers[txt]) <= 1

RemapAndList == Truthy(class_map_dist) /\ Truthy(class_list)
ListOnly == Truthy(class_list) /\ ~Truthy(class_map_dist)
AfterObject == cpc = "objects" /\ cur.nobjects > 0

\* C6: with a remap table and a class list, an object is skipped only if its
\* name is neither a key of the table nor a name of the list; otherwise its id
\* is the position in the list of its canonical name.
C6_RemapResolution ==
    (RemapAndList /\ AfterObject) =>
        LET name == cur.last.name
            canonical == IF name \in DOMAIN class_map_dist
                         THEN class_map_dist[name] ELSE name
        IN  IF name \notin DOMAIN class_map_dist /\ name \notin Range(class_list)
            THEN cur.last.dropped
            ELSE ~cur.last.dropped /\ class_list[obj_id + 1] = canonical

LineIdsInList(lines) ==
    \A k \in 1..Len(lines) : lines[k][1] \in 0..(Len(class_list) - 1)

\* C7: with a class list and no remap table, an object named in the list gets
\* the index of its name as id, and the line written for it carries that id; an
\* object not named in the list adds no line; every line of every file of the
\* run carries an index of the list.
C7_ListIndex ==
    ListOnly =>
        /\ AfterObject =>
              LET name == cur.last.name
              IN  IF name \in Range(class_list)
                  THEN /\ ~cur.last.dropped
                       /\ class_list[obj_id + 1] = name
                       /\ \A j \in 1..obj_id : class_list[j] # name
                       /\ cur.last.bndbox = "box" =>
                             /\ Len(txtresult) = cur.last.nbefore + 1
                             /\ txtresult[Len(txtresult)][1] = obj_id
                  ELSE cur.last.dropped /\ Len(txtresult) = cur.last.nbefore
        /\ LineIdsInList(txtresult)
        /\ \A txt \in DOMAIN out_dir : LineIdsInList(out_dir[txt])

\* in the second file of a run, after an object that left no line, the object
\* "b" is written with id 1
C7_Witness ==
    /\ ListOnly
    /\ AfterObject
    /\ fidx = 2
    /\ cur.nobjects = 2
    /\ cur.last.name = "b"
    /\ cur.last.nbefore = 0
    /\ Len(txtresult) = 1
    /\ txtresult[1][1] = 1
    /\ obj_id = 1

\* C9: for an image size with width or height zero or negative no label line is
\* produced.
C9_BadSizeNoLine ==
    (cpc = "objects" /\ (cur.imgshape[1] <= 0 \/ cur.imgshape[2] <= 0)) =>
        txtresult = <<>>

\* the object names the scan met, stripped, and how often and where first
ScannedNames == {Strip(scanned[i]) : i \in 1..Len(scanned)}
Occurrences(name) == Cardinality({i \in 1..Len(scanned) : Strip(scanned[i]) = name})
FirstSeen(name) == CHOOSE i \in 1..Len(scanned) :
                      /\ Strip(scanned[i]) = name
                      /\ \A j \in 1..(i - 1) : Strip(scanned[j]) # name

\* C8: get_class_list returns every (stripped) name seen exactly once, by
\* descending count, names of equal count in first-seen order.
C8_ClassListOrder ==
    LET l == GetClassList
    IN  /\ NoDup(l)
        /\ Range(l) = ScannedNames
        /\ \A i, j \in 1..Len(l) :
              i < j =>
                 /\ Occurrences(l[i]) >= Occurrences(l[j])
                 /\ Occurrences(l[i]) = Occurrences(l[j]) =>
                       FirstSeen(l[i]) < FirstSeen(l[j])

\* a scan of a, b, b, c: b is first, and a, c keep their first-seen order
C8_Witness ==
    /\ spc = "done"
    /\ scanned = <<"a", "b", "b", "c">>
    /\ GetClassList = <<"b", "a", "c">>

AllStages == <<"Init", "ScanningFiles", "CheckingCorrespondence",
               "SamplingImageIntegrity", "CheckingLabelSyntax", "Reporting", "Done">>
IsPrefix(s, t) == Len(s) <= Len(t) /\ SubSeq(t, 1, Len(s)) = s
Returned == vpc = "Done"

\* C10 as stated: every run that returns went through all seven stages in order.
C10_EveryReturnAllStages == Returned => stages = AllStages

\* C10 as amended: a run whose two directories exist goes through the seven
\* stages in order, none skipped or repeated, is never stuck before Done, and
\* has been through all seven when it returns (also with no image and no label
\* file); a run with a missing directory returns from Init, with no report.
C10_StagesInOrder ==
    /\ (images_exist /\ labels_exist) =>
          /\ IsPrefix(stages, AllStages)
          /\ stages # <<>> /\ vpc = stages[Len(stages)]
          /\ ~Returned => ENABLED ValNext
          /\ Returned => stages = AllStages /\ report.written
    /\ (~(images_exist /\ labels_exist) /\ Returned) =>
          stages = <<"Init", "Done">> /\ ~report.written /\ ~result.success

\* a run over two empty directories has returned after all seven stages
C10_Witness ==
    /\ Returned
    /\ images_exist /\ labels_exist
    /\ image_files = <<>> /\ label_files = <<>>
    /\ stages = AllStages
    /\ result.success

\* ---- validate_yolo_dataset: correspondence ----
Corresponded ==
    \/ vpc \in {"SamplingImageIntegrity", "CheckingLabelSyntax", "Reporting"}
    \/ vpc = "Done" /\ images_exist /\ labels_exist
ListedNames == {"n", "p", "q", "r"}
HasImage(b) == \E i \in 1..Len(image_files) : image_files[i][1] = b
HasLabel(b) == \E i \in 1..Len(label_files) : label_files[i][1] = b

\* C11: once the correspondence is computed, a basename is in
\* images_without_label exactly when some listed image file (a file with an
\* image extension) has it and no listed .txt file has it, in
\* labels_without_image exactly when some listed .txt file has it and no
\* listed image file has it, and matched_pairs is the number of basenames that
\* have both; a file that is neither an image nor a .txt file counts nowhere.
C11_OrphansAndPairs ==
    Corresponded =>
       /\ \A i \in 1..Len(image_files) : image_files[i][2] \in ImageExtensions
       /\ \A i \in 1..Len(label_files) : label_files[i][2] = ".txt"
       /\ correspondence_info.images_without_label \subseteq ListedNames
       /\ correspondence_info.labels_without_image \subseteq ListedNames
       /\ \A b \in ListedNames :
             /\ b \in correspondence_info.images_without_label
                   <=> (HasImage(b) /\ ~HasLabel(b))
             /\ b \in correspondence_info.labels_without_image
                   <=> (HasLabel(b) /\ ~HasImage(b))
       /\ correspondence_info.matched_pairs =
             Cardinality({b \in ListedNames : HasImage(b) /\ HasLabel(b)})

\* images {p.jpg, q.jpg} and labels {p.txt}: q is the one orphan image, there
\* is no orphan label and one pair
C11_Witness ==
    /\ Corresponded
    /\ Range(image_files) = {<<"p", ".jpg">>, <<"q", ".jpg">>}
    /\ Range(label_files) = {<<"p", ".txt">>}
    /\ correspondence_info.images_without_label = {"q"}
    /\ correspondence_info.labels_without_image = {}
    /\ correspondence_info.matched_pairs = 1

\* ---- validate_yolo_dataset: the lines of one label file ----
Checked == lpc = "checked"
IsFlagged(line_num, issue) == Issue(TheLabelFile, line_num, issue) \in Range(flagged)
NoReadError == \A i \in 1..Len(flagged) : flagged[i].issue # "read_error"

\* the five fields parse: an integer class id and four floating-point numbers
FieldsParse(line) ==
    /\ Len(line) = 5
    /\ IntAccepts(line[1])
    /\ \A k \in 2..5 : FloatAccepts(line[k])
InUnitInterval(t) ==
    RatLe(RatOfInt(0), FloatValue(t)) /\ RatLe(FloatValue(t), RatOfInt(1))

\* C12: in a checked file none of whose lines ended the check, every line
\* whose five fields parse (a class id that is not negative, four floats) and
\* one of whose four floats is above 1 or below 0 is flagged as out of range
\* and is not flagged as malformed.
C12_OutOfRangeFlagged ==
    (Checked /\ NoReadError) =>
       \A n \in 1..Len(flines) :
          (/\ FieldsParse(flines[n])
           /\ IntValue(flines[n][1]) >= 0
           /\ \E k \in 2..5 : ~InUnitInterval(flines[n][k]))
          => (IsFlagged(n, "range") /\ ~IsFlagged(n, "format"))

\* C13: in a checked file, every non-blank line that is not an integer class
\* id followed by four floating-point fields is flagged as malformed under its
\* own line number, by one entry.
C13_MalformedFlagged ==
    Checked =>
       \A n \in 1..Len(flines) :
          (flines[n] # BlankLine /\ ~FieldsParse(flines[n]))
          => Cardinality({i \in 1..Len(flagged) :
                            flagged[i] = Issue(TheLabelFile, n, "format")}) = 1

\* C14: in a checked file none of whose lines ended the check, every line with
\* a negative integer class id and four valid coordinates is flagged as a
\* negative class id, with max_class_id set or not.
C14_NegativeClassIdFlagged ==
    (Checked /\ NoReadError) =>
       \A n \in 1..Len(flines) :
          (/\ FieldsParse(flines[n])
           /\ IntValue(flines[n][1]) < 0
           /\ \A k \in 2..5 : InUnitInterval(flines[n][k]))
          => IsFlagged(n, "class_id_negative")

\* ---- validate_yolo_dataset: the result ----
\* C15: in every returned result, success is true exactly when error_count is
\* there and is 0, and success is true only with no orphan image, no orphan
\* label, no sampled image that failed to decode and no flagged label file or
\* line.
C15_NoSilentSuccess ==
    Returned =>
       /\ result.success <=> ("error_count" \in result.keys /\ result.error_count = 0)
       /\ "error_count" \in result.keys => result.error_count = Len(result.errors)
       /\ result.success =>
             /\ correspondence_info.images_without_label = {}
             /\ correspondence_info.labels_without_image = {}
             /\ broken_images = <<>>
             /\ invalid_annotations = <<>>

\* a run over a matched image and label file, the label file read, succeeds
C15_Witness ==
    /\ Returned
    /\ result.success
    /\ image_files # <<>>
    /\ label_files # <<>>
    /\ lidx = Len(label_files) + 1

\* ---- configuration errors ----
NoClassSource ==
    ~(ctor_args.class_dir \/ Truthy(ctor_args.class_list)
        \/ Truthy(ctor_args.class_map_dist))
SplitWroteNothing == ~output_made /\ list_files.written = {}

\* C16: a configuration error ends the run before anything is written.
\* split_dataset: with directory lists of different lengths or a missing
\* images directory the run raises at the argument check, and with no image
\* collected it raises after the collection, in each case with the output
\* directory not made and no list file written; validate_yolo_dataset: with a
\* missing images or labels directory the run returns a failure and writes no
\* report; XMLtoTXTConverter: with no class source the constructor exits
\* without making the output directory.
C16_ConfigErrorsWriteNothing ==
    /\ split_pc = "raised" => SplitWroteNothing
    /\ (/\ split_pc \notin {"off", "args"}
        /\ \/ Len(images_dir_list) # Len(labels_dir_list)
           \/ \E i \in 1..Len(images_dir_list) : ~images_dir_list[i])
          => (split_pc = "raised" /\ all_image_info = <<>> /\ SplitWroteNothing)
    /\ (split_pc \notin {"off", "args", "collect"} /\ collected = <<>>)
          => (split_pc = "raised" /\ SplitWroteNothing)
    /\ (vpc \notin {"off", "Init"} /\ ~(images_exist /\ labels_exist))
          => (vpc = "Done" /\ ~result.success /\ ~report.written
              /\ "error" \in result.keys)
    /\ (ctor_pc \notin {"off", "call"} /\ NoClassSource)
          => (ctor_pc = "exited" /\ ~out_dir_made)

\* split_dataset found no image in two existing directory pairs and raised
C16_Witness ==
    /\ split_pc = "raised"
    /\ split_exc = "ValueError: no image files"
    /\ images_dir_list = <<TRUE, TRUE>>
    /\ SplitWroteNothing

\* ---- split_dataset: the sizes ----
Floor(n, pct) == (n * pct[1]) \div pct[2]

DistDone == dist_pc = "done" /\ found_files # <<>>
DistClassIds == {0, 100}
CounterAt(counter, k) == IF k \in DOMAIN counter THEN counter[k] ELSE 0

\* a line that counts as an object: at least five fields, an integer class id
WellFormed(parts) == Len(parts) >= 5 /\ IntAccepts(parts[1])
LinesOf(f) == txt_files[f].lines
\* the well-formed lines of the f-th label file, and those of class c
ObjectsIn(f) ==
    Cardinality({j \in 1..Len(LinesOf(f)) : WellFormed(LinesOf(f)[j])})
ObjectsOf(f, c) ==
    Cardinality({j \in 1..Len(LinesOf(f)) :
                    WellFormed(LinesOf(f)[j]) /\ IntValue(LinesOf(f)[j][1]) = c})
\* the well-formed lines of class c in the whole corpus
ObjectsOfClass(c) ==
    Cardinality({p \in (1..Len(txt_files)) \X (1..MaxDistLines) :
                    /\ p[2] <= Len(LinesOf(p[1]))
                    /\ WellFormed(LinesOf(p[1])[p[2]])
                    /\ IntValue(LinesOf(p[1])[p[2]][1]) = c})
RECURSIVE WeightedSum(_, _)
WeightedSum(counter, keys) ==
    IF keys = {} THEN 0
    ELSE LET k == CHOOSE k \in keys : TRUE
         IN  k * counter[k] + WeightedSum(counter, keys \ {k})

\* C17: after the run, every well-formed line of every label file is counted
\* (labels_counter[c] is the number of well-formed lines of class c, whatever
\* blank, short or unparsable lines stand before or after them), and every
\* label file is counted once in objects_per_image.
C17_BadLinesOnlySkipped ==
    DistDone =>
       /\ DOMAIN labels_counter \subseteq DistClassIds
       /\ \A c \in DistClassIds : CounterAt(labels_counter, c) = ObjectsOfClass(c)
       /\ SumOver(objects_per_image, DOMAIN objects_per_image) = Len(txt_files)

\* C18: after the run, total_label_files is the number of .txt files found
\* that do not bear an excluded name, objects_per_image[n] is the number of
\* them with exactly n counted objects, the values of objects_per_image add
\* up to total_label_files, and the sum of n * objects_per_image[n] is the sum
\* of labels_counter, which is total_objects.
C18_HistogramTotals ==
    DistDone =>
       /\ total_label_files =
             Cardinality({i \in 1..Len(found_files) :
                             found_files[i].path[2] \notin ExcludeFiles})
       /\ \A n \in 0..MaxDistLines :
             CounterAt(objects_per_image, n) =
                Cardinality({f \in 1..Len(txt_files) : ObjectsIn(f) = n})
       /\ SumOver(objects_per_image, DOMAIN objects_per_image) = total_label_files
       /\ WeightedSum(objects_per_image, DOMAIN objects_per_image) =
             SumOver(labels_counter, DOMAIN labels_counter)
       /\ total_objects = SumOver(labels_counter, DOMAIN labels_counter)

\* C19: after a run over files all of whose class ids parse, every class id
\* of labels_counter has an entry in class_objects_per_image, and for every
\* N >= 1 that entry holds under N the number of label files with exactly N
\* lines of the class.
C19_PerClassHistogram ==
    (/\ DistDone
     /\ \A f \in 1..Len(txt_files) : \A j \in 1..Len(LinesOf(f)) :
           Len(LinesOf(f)[j]) >= 5 => IntAccepts(LinesOf(f)[j][1]))
    => \A X \in DOMAIN labels_counter :
          /\ X \in DOMAIN class_objects_per_image
          /\ \A N \in 1..MaxDistLines :
                CounterAt(class_objects_per_image[X], N) =
                   Cardinality({f \in 1..Len(txt_files) : ObjectsOf(f, X) = N})

(***************************************************************************)
(* C21.  When a run of split_dataset completes, the train, val and test    *)
(* index lists are pairwise disjoint, together they hold every index of    *)
(* the items that were split, no list holds an index twice, trainval holds *)
(* exactly the indexes of train and val, and each of the four list files   *)
(* holds, line for line, the path of the item at each index of its list.   *)
(***************************************************************************)
SplitCompleted == split_pc = "done"
ItemPath(idx) == <<all_image_info[idx + 1].pair, all_image_info[idx + 1].file>>
FileHolds(lines, indices_list) ==
    /\ Len(lines) = Len(indices_list)
    /\ \A k \in 1..Len(lines) : lines[k] = ItemPath(indices_list[k])
C21_SplitPartition ==
    SplitCompleted =>
        LET train == Range(index_lists.train)
            val == Range(index_lists.val)
            test == Range(index_lists.test)
        IN  /\ train \cap val = {}
            /\ train \cap test = {}
            /\ val \cap test = {}
            /\ train \cup val \cup test = 0..(Len(all_image_info) - 1)
            /\ NoDup(index_lists.train) /\ NoDup(index_lists.val)
            /\ NoDup(index_lists.test) /\ NoDup(index_lists.trainval)
            /\ Range(index_lists.trainval) = train \cup val
            /\ list_files.written = {"train", "val", "test", "trainval"}
            /\ FileHolds(list_files.train, index_lists.train)
            /\ FileHolds(list_files.val, index_lists.val)
            /\ FileHolds(list_files.test, index_lists.test)
            /\ FileHolds(list_files.trainval, index_lists.trainval)

\* C21: a completed run over two directory pairs in which train, val and
\* test all received an item
C21_Witness ==
    /\ SplitCompleted
    /\ Len(images_dir_list) = 2
    /\ index_lists.train # <<>> /\ index_lists.val # <<>> /\ index_lists.test # <<>>
    /\ \E k \in 1..Len(list_files.test) : list_files.test[k][1] = 2

(***************************************************************************)
(* C22.  Two calls of split_dataset with the same seed (not None), the     *)
(* same percentages and the same sequence of items to split give the same  *)
(* train, val and test sets, whatever state the generator was in before    *)
(* each call.                                                              *)
(***************************************************************************)
SecondSplitMade == run = 2 /\ split_pc \in {"write", "done"}
C22_SeededSplitRepeats ==
    (SecondSplitMade /\ random_seed # NoSeed /\ all_image_info = first_run.info) =>
        /\ Range(index_lists.train) = Range(first_run.lists.train)
        /\ Range(index_lists.val) = Range(first_run.lists.val)
        /\ Range(index_lists.test) = Range(first_run.lists.test)

\* C22: a second seeded call that split the same three items into non-empty
\* train, val and test sets
C22_Witness ==
    /\ SecondSplitMade
    /\ random_seed # NoSeed
    /\ all_image_info = first_run.info
    /\ Len(all_image_info) = 3
    /\ index_lists.train # <<>> /\ index_lists.val # <<>> /\ index_lists.test # <<>>

(***************************************************************************)
(* C23.  With one or several directory pairs: when the answer keeps only   *)
(* the labelled items, every path in a list file is the path of an item    *)
(* whose label file lies in the labels directory paired with its own       *)
(* images directory, and no item without such a label file is in any of    *)
(* the four list files; with any other answer, or when no label file is    *)
(* missing, every collected item is in a list file.                        *)
(***************************************************************************)
PathOfItem(it) == <<it.pair, it.file>>
ListedPaths ==
    Range(list_files.train) \cup Range(list_files.val) \cup Range(list_files.test)
        \cup Range(list_files.trainval)
HasOwnLabel(it) == it.pair \in it.labels_in
C23_OnlyOwnLabelledKept ==
    SplitCompleted =>
        IF use_valid_only = "y"
        THEN /\ \A it \in Range(collected) :
                    PathOfItem(it) \in ListedPaths <=> HasOwnLabel(it)
             /\ ListedPaths \subseteq {PathOfItem(it) : it \in Range(collected)}
        ELSE ListedPaths = {PathOfItem(it) : it \in Range(collected)}

\* C23: a completed run over two directory pairs that kept only the labelled
\* items, left out an item of the second pair whose label file lies only in
\* the labels directory of the first pair, and listed an item of each pair
C23_Witness ==
    /\ SplitCompleted
    /\ Len(images_dir_list) = 2
    /\ use_valid_only = "y"
    /\ \E it \in Range(collected) :
          it.pair = 2 /\ it.labels_in = {1} /\ PathOfItem(it) \notin ListedPaths
    /\ \E p, q \in ListedPaths : p[1] = 1 /\ q[1] = 2

(***************************************************************************)
(* C25.  Every bndbox TxtToXmlConverter.convert writes for a valid         *)
(* normalized label (cx, cy, w, h in [0,1], w > 0, h > 0, cx -/+ w/2 and   *)
(* cy -/+ h/2 within [0,1]) in an image of size (W, H) is a valid absolute *)
(* box: xmin < xmax, ymin < ymax, 0 <= xmin, xmax <= W, 0 <= ymin,         *)
(* ymax <= H.                                                              *)
(***************************************************************************)
Zero == RatOfInt(0)
One == RatOfInt(1)
ValidNormalizedLabel(line) ==
    LET cx == line[2]
        cy == line[3]
        w  == line[4]
        h  == line[5]
    IN  /\ InUnit(cx) /\ InUnit(cy) /\ InUnit(w) /\ InUnit(h)
        /\ RatLt(Zero, w) /\ RatLt(Zero, h)
        /\ RatLe(Zero, RatSub(cx, RatMul(w, Half)))
        /\ RatLe(RatAdd(cx, RatMul(w, Half)), One)
        /\ RatLe(Zero, RatSub(cy, RatMul(h, Half)))
        /\ RatLe(RatAdd(cy, RatMul(h, Half)), One)
ValidAbsoluteBox(box, img) ==
    /\ box[1] < box[3] /\ box[2] < box[4]
    /\ 0 <= box[1] /\ box[3] <= img[1]
    /\ 0 <= box[2] /\ box[4] <= img[2]
C25_BndBoxInsideImage ==
    (gpc = "denormalized" /\ ValidNormalizedLabel(gline)) =>
        ValidAbsoluteBox(gback, gimg)

(***************************************************************************)
(* C24.  For every listing of label files (consecutive files whose names   *)
(* share the text before the first dot, files skipped because their image  *)
(* is missing, an output directory that already holds documents), the      *)
(* document written for a label file with n >= 1 lines and a loadable      *)
(* image is: one <annotation> opening, first; the n <object> blocks of the *)
(* file, in line order; one </annotation>, last.                           *)
(***************************************************************************)
DocumentOf(f, n) ==
    <<OpenTag>> \o [k \in 1..n |-> ObjectBlock(f, k)] \o <<CloseTag>>
C24_OneDocumentPerLabelFile ==
    \A f \in 1..(tidx - 1) :
        (/\ tpc \in {"files", "done"}
         /\ f = tidx - 1
         /\ listed_files[f].lines >= 1
         /\ listed_files[f].img_name \in img_path)
        => xml_path[listed_files[f].img_name] = DocumentOf(f, listed_files[f].lines)

(***************************************************************************)
(* C26.  For every label file in which validate_yolo_dataset, called       *)
(* without max_class_id, records no issue, the analyzer's loop over the    *)
(* lines counts exactly one object per non-blank line, under the class id  *)
(* the validator parsed from that line.                                    *)
(***************************************************************************)
Analyzed == lpc = "analyzed"
CleanForValidator == lmax = NoMax /\ flagged = <<>>
NonBlankLines == {i \in 1..Len(flines) : flines[i] # BlankLine}
LinesOfClass(c) == {i \in NonBlankLines : IntValue(flines[i][1]) = c}
CorrespondenceMade == correspondence_info # NoInfo
SharedBasename(listing) ==
    \E i, j \in 1..Len(listing) : i # j /\ Basename(listing[i]) = Basename(listing[j])
PairedImages ==
    correspondence_info.matched_pairs
        + Cardinality(correspondence_info.images_without_label)
PairedLabels ==
    correspondence_info.matched_pairs
        + Cardinality(correspondence_info.labels_without_image)
C27_CorrespondenceCounts ==
    CorrespondenceMade =>
        /\ PairedImages = Cardinality(Basenames(image_files))
        /\ PairedLabels = Cardinality(Basenames(label_files))
        /\ correspondence_info.total_images >= PairedImages
        /\ correspondence_info.total_images = PairedImages <=> ~SharedBasename(image_files)
        /\ correspondence_info.total_labels >= PairedLabels
        /\ correspondence_info.total_labels = PairedLabels <=> ~SharedBasename(label_files)

\* C27: two image files share a basename and one of the two has a label
\* file, next to a label file without an image
C27_Witness ==
    /\ CorrespondenceMade
    /\ SharedBasename(image_files)
    /\ ~SharedBasename(label_files)
    /\ correspondence_info.matched_pairs = 1
    /\ correspondence_info.total_images = 3
    /\ Cardinality(correspondence_info.labels_without_image) = 1

\* C27 as stated: matched_pairs plus the number of labels_without_image is
\* total_labels, for every listing of the labels directory
C27_LabelsAddUpToTotal ==
    CorrespondenceMade => PairedLabels = correspondence_info.total_labels

(***************************************************************************)
(* C28.  Every label line XMLtoTXTConverter writes carries the class id    *)
(* resolved from the name of the object of that same pass, an index of     *)
(* class_list; no line carries an id left by an earlier object or file.    *)
(* Without a class_list (class_dir or class_map_dist alone) no line is     *)
(* written at all: the first object with a bndbox ends the conversion.     *)
(***************************************************************************)
PassWroteLine ==
    cpc = "objects" /\ cur.nobjects >= 1 /\ Len(txtresult) > cur.last.nbefore
WrittenLines ==
    {txtresult[i] : i \in 1..Len(txtresult)}
        \cup UNION {{out_dir[n][i] : i \in 1..Len(out_dir[n])} : n \in DOMAIN out_dir}
C28_IdOfTheSameObject ==
    /\ PassWroteLine =>
          /\ Resolve(cur.last.name).kind = "id"
          /\ txtresult[Len(txtresult)][1] = Resolve(cur.last.name).id
    /\ \A line \in WrittenLines : line[1] \in 0..(Len(class_list) - 1)
    /\ ~Truthy(class_list) =>
          /\ WrittenLines = {}
          /\ (cpc = "objects" /\ cur.nobjects >= 1) => cur.last.bndbox = "none"

\* C28: a pass wrote a second line whose id, resolved through the map from
\* the name of its own object, differs from the id of the line before
C28_Witness ==
    /\ PassWroteLine
    /\ Truthy(class_map_dist)
    /\ Len(txtresult) = 2
    /\ txtresult[1][1] # txtresult[2][1]
    /\ cur.last.name = "x"

(***************************************************************************)
(* C29.  modify(old_name, new_name) changes, in each XML file, only the    *)
(* first object in document order whose name is old_name: its name becomes *)
(* new_name and its name_old becomes old_name.  Every other object, the    *)
(* later objects named old_name included, is left as it was, and a file    *)
(* with no object named old_name is not rewritten.                         *)
(***************************************************************************)
Walked(f) == npc \in {"walk", "done"} /\ f < nidx
NamedOld(f) == {i \in 1..Len(orig_files[f]) : orig_files[f][i].name = old_name}
FirstNamedOld(f) == CHOOSE i \in NamedOld(f) : \A j \in NamedOld(f) : i <= j
C29_OnlyFirstMatchRenamed ==
    \A f \in 1..Len(xml_files) :
        /\ Len(xml_files[f]) = Len(orig_files[f])
        /\ ~Walked(f) => xml_files[f] = orig_files[f] /\ f \notin rewritten
        /\ (Walked(f) /\ NamedOld(f) = {}) =>
              xml_files[f] = orig_files[f] /\ f \notin rewritten
        /\ (Walked(f) /\ NamedOld(f) # {}) =>
              /\ f \in rewritten
              /\ xml_files[f][FirstNamedOld(f)] =
                    [name |-> new_name, name_old |-> old_name]
              /\ \A i \in 1..Len(xml_files[f]) :
                    i # FirstNamedOld(f) => xml_files[f][i] = orig_files[f][i]

\* C29: a file whose two objects are both named old_name has been walked,
\* the first renamed and the second still named old_name, while another
\* file without the name was left alone
C29_Witness ==
    /\ npc = "done"
    /\ old_name # new_name
    /\ Len(xml_files) = 2
    /\ \E f, g \in 1..2 :
          /\ Cardinality(NamedOld(f)) = 2
          /\ xml_files[f][1].name = new_name
          /\ xml_files[f][2].name = old_name
          /\ NamedOld(g) = {} /\ Len(orig_files[g]) >= 1 /\ g \notin rewritten

(***************************************************************************)
(* C30.  In the result of validate_yolo_dataset, error_count is the length *)
(* of errors; each of the four categories has either no entry in errors or *)
(* one header followed by one to five details; so error_count lies between *)
(* 0 and 24 and is never 1.                                                *)
(***************************************************************************)
ErrorCategories ==
    {"images_without_label", "labels_without_image", "broken_images",
     "invalid_annotations"}
HasErrorCount == "error_count" \in result.keys
EntriesOf(category, kind) ==
    Cardinality({i \in 1..Len(result.errors) :
                    /\ result.errors[i].category = category
                    /\ result.errors[i].kind = kind})
=============================================================================
